---- MODULE Spec2Model ----
(***************************************************************************)
(* A model of the cherrymusic media-path indexing core: the Path value,   *)
(* the directory walker and its filters, the sqlite session wrapper, the  *)
(* paths/ancestors schema with its AFTER INSERT trigger, the update pass  *)
(* and the IdentifyPathView query.                                         *)
(*                                                                         *)
(* Strings are sequences of code points and byte strings are sequences of *)
(* byte values, so that encoding, splitting and joining are computed and  *)
(* not assumed.                                                            *)
(***************************************************************************)
EXTENDS Integers, Sequences, FiniteSets, TLC

(***************************************************************************)
(* Bounds of the model.                                                    *)
(***************************************************************************)
\* update() calls made one after the other on the same store
MaxPasses == 2
\* largest commit_every handed to update()
MaxCommitEvery == 2

(***************************************************************************)
(* Characters, strings and bytes.                                          *)
(***************************************************************************)
\* code points / byte values used by the model's file names
Ch == [a |-> 97, b |-> 98, f |-> 102, k |-> 107, l |-> 108, m |-> 109,
       o |-> 111, r |-> 114, x |-> 120, z |-> 122, dot |-> 46, sep |-> 47,
       hi |-> 220, i |-> 105, n |-> 110, t |-> 116, us |-> 95,
       d0 |-> 48, d1 |-> 49, d2 |-> 50]

\* None / SQL NULL; a value that may be NULL is NULL or <<value>>
NULL == <<>>

Some(v) == <<v>>

Last(s) == s[Len(s)]

Front(s) == SubSeq(s, 1, Len(s) - 1)

Max(a, b) == IF a >= b THEN a ELSE b

StartsWith(s, p) == Len(p) <= Len(s) /\ SubSeq(s, 1, Len(p)) = p

\* str.split(sep): the pieces between separators, empty pieces kept
RECURSIVE SplitFrom(_, _, _)
SplitFrom(s, i, cur) ==
    IF i > Len(s) THEN <<cur>>
    ELSE IF s[i] = Ch.sep THEN <<cur>> \o SplitFrom(s, i + 1, <<>>)
    ELSE SplitFrom(s, i + 1, Append(cur, s[i]))

Split(s) == CHOOSE parts \in {SplitFrom(v, 1, <<>>) : v \in {s}} : TRUE

\* sep.join(parts)
RECURSIVE JoinSep(_)
JoinSep(parts) ==
    IF parts = <<>> THEN <<>>
    ELSE IF Len(parts) = 1 THEN parts[1]
    ELSE parts[1] \o <<Ch.sep>> \o JoinSep(Tail(parts))

\* os.path.join(a, b) of posixpath
PathJoin(a, b) ==
    IF b # <<>> /\ b[1] = Ch.sep THEN b
    ELSE IF a = <<>> \/ Last(a) = Ch.sep THEN a \o b
    ELSE a \o <<Ch.sep>> \o b

\* os.path.join(first, *rest)
RECURSIVE PathJoinAll(_, _)
PathJoinAll(first, rest) ==
    IF rest = <<>> THEN first
    ELSE PathJoinAll(PathJoin(first, rest[1]), Tail(rest))

\* os.fsencode of one code point: UTF-8 with errors='surrogateescape'
\* (code points below 0x800 and the lone surrogates U+DC80..U+DCFF)
EncodeCp(c) ==
    IF c < 128 THEN <<c>>
    ELSE IF c >= 56448 /\ c <= 56575 THEN <<c - 56320>>
    ELSE <<192 + (c \div 64), 128 + (c % 64)>>

RECURSIVE fsencode(_)
fsencode(s) == IF s = <<>> THEN <<>> ELSE EncodeCp(s[1]) \o fsencode(Tail(s))

\* os.fsdecode: UTF-8 with errors='surrogateescape'; a byte that starts no
\* valid one- or two-byte sequence becomes the lone surrogate U+DC00+byte
RECURSIVE fsdecode(_)
fsdecode(bs) ==
    IF bs = <<>> THEN <<>>
    ELSE IF bs[1] < 128 THEN <<bs[1]>> \o fsdecode(Tail(bs))
    ELSE IF /\ bs[1] >= 194 /\ bs[1] <= 223 /\ Len(bs) >= 2
            /\ bs[2] >= 128 /\ bs[2] <= 191
         THEN <<(bs[1] - 192) * 64 + (bs[2] - 128)>> \o fsdecode(Tail(Tail(bs)))
    ELSE <<56320 + bs[1]>> \o fsdecode(Tail(bs))

(***************************************************************************)
(* posixpath: normpath, split, relpath.                                    *)
(***************************************************************************)
Dot == <<Ch.dot>>

DotDot == <<Ch.dot, Ch.dot>>

\* the loop of posixpath.normpath over the components
RECURSIVE NormComps(_, _, _)
NormComps(comps, acc, initial) ==
    IF comps = <<>> THEN acc
    ELSE LET comp == comps[1]
             rest == Tail(comps)
         IN IF comp = <<>> \/ comp = Dot THEN NormComps(rest, acc, initial)
            ELSE IF \/ comp # DotDot
                    \/ (initial = 0 /\ acc = <<>>)
                    \/ (acc # <<>> /\ Last(acc) = DotDot)
                 THEN NormComps(rest, Append(acc, comp), initial)
            ELSE IF acc # <<>> THEN NormComps(rest, Front(acc), initial)
            ELSE NormComps(rest, acc, initial)

InitialSlashes(path) ==
    IF ~StartsWith(path, <<Ch.sep>>) THEN 0
    ELSE IF StartsWith(path, <<Ch.sep, Ch.sep>>)
            /\ ~StartsWith(path, <<Ch.sep, Ch.sep, Ch.sep>>) THEN 2
    ELSE 1

normpath(path) ==
    IF path = <<>> THEN Dot
    ELSE LET initial == InitialSlashes(path)
             joined == JoinSep(NormComps(Split(path), <<>>, initial))
             full == [i \in 1..initial |-> Ch.sep] \o joined
         IN IF full = <<>> THEN Dot ELSE full

\* index after the last separator of p (p.rfind(sep) + 1)
RECURSIVE RFindSep(_, _)
RFindSep(p, i) == IF i = 0 THEN 0 ELSE IF p[i] = Ch.sep THEN i ELSE RFindSep(p, i - 1)

RECURSIVE RStripSep(_)
RStripSep(p) == IF p # <<>> /\ Last(p) = Ch.sep THEN RStripSep(Front(p)) ELSE p

\* os.path.split(p) = <<head, tail>>
PathSplit(p) ==
    LET i == RFindSep(p, Len(p))
        head == SubSeq(p, 1, i)
        tail == SubSeq(p, i + 1, Len(p))
    IN <<IF RStripSep(head) # <<>> THEN RStripSep(head) ELSE head, tail>>

NonEmpty(parts) == SelectSeq(parts, LAMBDA c : c # <<>>)

RECURSIVE CommonLen(_, _)
CommonLen(u, v) ==
    IF u = <<>> \/ v = <<>> \/ u[1] # v[1] THEN 0 ELSE 1 + CommonLen(Tail(u), Tail(v))

\* os.path.relpath(path, start) for absolute arguments
relpath(path, start) ==
    LET start_list == NonEmpty(Split(normpath(start)))
        path_list == NonEmpty(Split(normpath(path)))
        i == CommonLen(start_list, path_list)
        rel_list == [j \in 1..(Len(start_list) - i) |-> DotDot]
                    \o SubSeq(path_list, i + 1, Len(path_list))
    IN IF rel_list = <<>> THEN Dot ELSE JoinSep(rel_list)

(***************************************************************************)
(* The Path value (files.py).  A Path is the record of its attributes;    *)
(* equality and hashing go by the joined form PathStr.                     *)
(***************************************************************************)
is_simple_name(name) ==
    /\ name \notin {<<>>, Dot, DotDot}
    /\ \A i \in 1..Len(name) : name[i] # Ch.sep

\* Path.path: parent and name are normalized, so they are concatenated
PathStr(p) == (IF p.parent = <<>> THEN <<>> ELSE p.parent \o <<Ch.sep>>) \o p.name

\* Path.depth when it is not handed in: the parts of pathlib.PurePath
RECURSIVE SumParts(_)
SumParts(parts) ==
    IF parts = <<>> THEN 0
    ELSE (IF parts[1] = DotDot THEN -1 ELSE 1) + SumParts(Tail(parts))

PathDepth(pathstr) ==
    SumParts(SelectSeq(Split(pathstr), LAMBDA c : c # <<>> /\ c # Dot))

\* Path(name, is_dir=...) without a parent: join, normalize, split
PathOf(name, is_dir, is_symlink) ==
    LET normpath_ == normpath(PathJoin(<<>>, name))
        parts == PathSplit(normpath_)
    IN [parent |-> parts[1], name |-> parts[2], depth |-> PathDepth(normpath_),
        is_dir |-> is_dir, is_symlink |-> is_symlink]

\* a make_child that hands the parent's depth on without incrementing it
make_child_at_parent_depth(parent, name, is_dir, is_symlink) ==
    [parent |-> IF parent.name = Dot THEN parent.parent ELSE PathStr(parent),
     name |-> name, depth |-> parent.depth, is_dir |-> is_dir, is_symlink |-> is_symlink]

\* Path.make_child(name, is_dir=..., is_symlink=...)
make_child(parent, name, is_dir, is_symlink) ==
    IF is_simple_name(name)
    THEN [parent |-> IF parent.name = Dot THEN parent.parent ELSE PathStr(parent),
          name |-> name, depth |-> parent.depth + 1,
          is_dir |-> is_dir, is_symlink |-> is_symlink]
    ELSE LET normpath_ == normpath(PathJoin(PathStr(parent), name))
             parts == PathSplit(normpath_)
         IN [parent |-> parts[1], name |-> parts[2], depth |-> PathDepth(normpath_),
             is_dir |-> is_dir, is_symlink |-> is_symlink]

\* Path.__eq__ between two Paths
PathEq(p, q) == p.name = q.name /\ p.parent = q.parent

(***************************************************************************)
(* The filesystem the walker sees.  A node is the sequence of the raw     *)
(* byte names from "/" down; a layout maps the nodes that exist to        *)
(* [kind, target], the target of a link being a real directory or file.   *)
(***************************************************************************)
nR == <<Ch.r>>
nO == <<Ch.o>>
nA == <<Ch.a>>
nB == <<Ch.b>>
nF == <<Ch.f>>
nX == <<Ch.x, Ch.hi>>
nM == <<Ch.m>>
nZ == <<Ch.z>>
nHid == <<Ch.dot, Ch.b>>
nHidLink == <<Ch.dot, Ch.l>>
nLink == <<Ch.l>>
nBack == <<Ch.k>>

Dir == [kind |-> "dir", target |-> <<>>]
File == [kind |-> "file", target |-> <<>>]
Link(t) == [kind |-> "link", target |-> t]

\* /r/a/, /r/a/b/, /r/a/b/f and a file /r/x\xdc whose name is not UTF-8
LayoutTree ==
    (<<nR>> :> Dir) @@ (<<nR, nA>> :> Dir) @@ (<<nR, nA, nB>> :> Dir)
    @@ (<<nR, nA, nB, nF>> :> File) @@ (<<nR, nX>> :> File)

\* /r/k -> /r (circular), /r/l -> /o and the hidden /r/.l -> /o, /o/m,
\* and the hidden directory /r/.b/ holding z
LayoutLinks ==
    (<<nR>> :> Dir) @@ (<<nO>> :> Dir) @@ (<<nO, nM>> :> File)
    @@ (<<nR, nBack>> :> Link(<<nR>>)) @@ (<<nR, nLink>> :> Link(<<nO>>))
    @@ (<<nR, nHidLink>> :> Link(<<nO>>))
    @@ (<<nR, nHid>> :> Dir) @@ (<<nR, nHid, nZ>> :> File)

\* an empty root directory
LayoutEmpty == (<<nR>> :> Dir)

\* the links of test_circular_symlink_filter: /r/la -> /o/a/ (safe once),
\* /r/lm -> /o/a/ too, /r/lo -> /o/ (above a known root), /r/lb -> /o/a/b/
\* (below one), /r/k -> /r/ (back to root), /r/lx -> /o/ab/ (a name that
\* begins like /o/a), /r/lf -> the file /r/f
LayoutFilter ==
    (<<nR>> :> Dir) @@ (<<nR, nF>> :> File)
    @@ (<<nO>> :> Dir) @@ (<<nO, nA>> :> Dir) @@ (<<nO, nA, nB>> :> Dir)
    @@ (<<nO, nA \o nB>> :> Dir)
    @@ (<<nR, nLink \o nA>> :> Link(<<nO, nA>>))
    @@ (<<nR, nLink \o nM>> :> Link(<<nO, nA>>))
    @@ (<<nR, nLink \o nO>> :> Link(<<nO>>))
    @@ (<<nR, nLink \o nB>> :> Link(<<nO, nA, nB>>))
    @@ (<<nR, nBack>> :> Link(<<nR>>))
    @@ (<<nR, nLink \o nX>> :> Link(<<nO, nA \o nB>>))
    @@ (<<nR, nLink \o nF>> :> Link(<<nR, nF>>))

\* two directories that lead to each other: /r/l -> /o and /o/k -> /r, with
\* the files /r/f and /o/m
LayoutCycle ==
    (<<nR>> :> Dir) @@ (<<nR, nF>> :> File) @@ (<<nR, nLink>> :> Link(<<nO>>))
    @@ (<<nO>> :> Dir) @@ (<<nO, nBack>> :> Link(<<nR>>)) @@ (<<nO, nM>> :> File)

Layouts == {LayoutTree, LayoutLinks, LayoutEmpty}

\* no node: what a path that does not exist names
NoNode == << <<>> >>

\* the node a path string names, or NoNode; symlinks are followed, the last
\* component's only when follow is TRUE
RECURSIVE WalkNode(_, _, _, _)
WalkNode(layout, cur, comps, follow) ==
    IF comps = <<>> THEN cur
    ELSE LET comp == comps[1]
             rest == Tail(comps)
             cand == Append(cur, comp)
         IN IF comp = Dot THEN WalkNode(layout, cur, rest, follow)
            ELSE IF comp = DotDot
                 THEN WalkNode(layout, IF cur = <<>> THEN cur ELSE Front(cur), rest, follow)
            ELSE IF cand \notin DOMAIN layout THEN NoNode
            ELSE IF layout[cand].kind = "link" /\ (rest # <<>> \/ follow)
                 THEN WalkNode(layout, layout[cand].target, rest, follow)
            ELSE IF layout[cand].kind = "file" /\ rest # <<>> THEN NoNode
            ELSE WalkNode(layout, cand, rest, follow)

OsNode(layout, pathstr, follow) ==
    CHOOSE node \in {WalkNode(layout, <<>>, comps, follow) :
                        comps \in {NonEmpty(Split(fsencode(pathstr)))}} : TRUE

NodeIsDir(layout, node) ==
    node # NoNode /\ (node = <<>> \/ layout[node].kind = "dir")

\* os.path.isdir, os.path.exists, os.path.islink
isdir(layout, pathstr) == NodeIsDir(layout, OsNode(layout, pathstr, TRUE))

\* an os.path.exists that finds every path
exists_always(layout, pathstr) == TRUE

exists(layout, pathstr) == OsNode(layout, pathstr, TRUE) # NoNode

RECURSIVE DecodeAll(_)
DecodeAll(names) ==
    IF names = <<>> THEN <<>> ELSE <<fsdecode(names[1])>> \o DecodeAll(Tail(names))

\* os.path.realpath of a path that exists: the string of its real node
realpath(layout, pathstr) ==
    LET real(node) == IF node = NoNode THEN normpath(pathstr)
                      ELSE <<Ch.sep>> \o JoinSep(DecodeAll(node))
    IN CHOOSE p \in {real(node) : node \in {OsNode(layout, pathstr, TRUE)}} : TRUE

\* the raw names os.scandir finds in a directory node
EntryNames(layout, node) ==
    {n[Len(n)] : n \in {m \in DOMAIN layout : Len(m) = Len(node) + 1 /\ Front(m) = node}}

\* DirEntry.is_dir() follows the link, DirEntry.is_symlink() does not
EntryIsDir(layout, node, rawname) ==
    LET e == layout[Append(node, rawname)]
    IN NodeIsDir(layout, IF e.kind = "link" THEN e.target ELSE Append(node, rawname))

EntryIsSymlink(layout, node, rawname) == layout[Append(node, rawname)].kind = "link"

(***************************************************************************)
(* Filters (files.py, media/data.py).                                      *)
(***************************************************************************)
\* canonical_path(path, root=root): absolute, symlinks resolved
canonical_path(layout, pathstr, root) ==
    IF pathstr # <<>> /\ pathstr[1] = Ch.sep
    THEN realpath(layout, pathstr)
    ELSE realpath(layout, PathJoin(realpath(layout, root), pathstr))

\* a filter that starts without its root among the known roots
InitialKnownRootsEmpty(layout, root) == {}

\* circular_symlink_filter(root): the known roots it starts with
InitialKnownRoots(layout, root) == {PathJoin(canonical_path(layout, root, <<>>), <<>>)}

\* a filter that accepts every path
is_noncircular_symlink_accepting(layout, root, known_roots, path) == <<TRUE, known_roots>>

\* a filter that does not register the target of a link it accepts
is_noncircular_symlink_forgetful(layout, root, known_roots, path) ==
    IF path.is_symlink /\ path.is_dir
    THEN LET test(testpath) ==
                 <<~\E r \in known_roots :
                        StartsWith(r, testpath) \/ StartsWith(testpath, r),
                   known_roots>>
         IN test(PathJoin(canonical_path(layout, PathStr(path), root), <<>>))
    ELSE <<TRUE, known_roots>>

\* a filter that registers the target of every directory link, rejected or not
is_noncircular_symlink_registering(layout, root, known_roots, path) ==
    IF path.is_symlink /\ path.is_dir
    THEN LET test(testpath) ==
                 <<~\E r \in known_roots :
                        StartsWith(r, testpath) \/ StartsWith(testpath, r),
                   known_roots \cup {testpath}>>
         IN test(PathJoin(canonical_path(layout, PathStr(path), root), <<>>))
    ELSE <<TRUE, known_roots>>

\* a filter that compares the target as it is, with no separator at its end
is_noncircular_symlink_no_sep(layout, root, known_roots, path) ==
    IF path.is_symlink /\ path.is_dir
    THEN LET test(testpath) ==
                 IF \E r \in known_roots :
                        StartsWith(r, testpath) \/ StartsWith(testpath, r)
                 THEN <<FALSE, known_roots>>
                 ELSE <<TRUE, known_roots \cup {testpath}>>
         IN test(canonical_path(layout, PathStr(path), root))
    ELSE <<TRUE, known_roots>>

\* is_noncircular_symlink(path): <<accepted, known roots afterwards>>
is_noncircular_symlink(layout, root, known_roots, path) ==
    IF path.is_symlink /\ path.is_dir
    THEN LET test(testpath) ==
                 IF \E r \in known_roots :
                        StartsWith(r, testpath) \/ StartsWith(testpath, r)
                 THEN <<FALSE, known_roots>>
                 ELSE <<TRUE, known_roots \cup {testpath}>>
         IN CHOOSE r \in {test(t) : t \in {PathJoin(canonical_path(layout, PathStr(path),
                                                                  root), <<>>)}} : TRUE
    ELSE <<TRUE, known_roots>>

\* lambda p: not p.name.startswith('.')
not_hidden_name(path) == ~StartsWith(path.name, Dot)

\* a chain that asks its first filter only
AcceptFirstOnly(filters, layout, root, known_roots, path) ==
    IF filters = <<>> THEN <<TRUE, known_roots>>
    ELSE IF filters[1] = "circular_symlink"
    THEN is_noncircular_symlink(layout, root, known_roots, path)
    ELSE <<not_hidden_name(path), known_roots>>

\* all(accept(child) for accept in filters): in order, stopping at the first
\* rejection; <<accepted, known roots afterwards>>
RECURSIVE AcceptAll(_, _, _, _, _)
AcceptAll(filters, layout, root, known_roots, path) ==
    IF filters = <<>> THEN <<TRUE, known_roots>>
    ELSE LET rest(r) == IF r[1] THEN AcceptAll(Tail(filters), layout, root, r[2], path)
                        ELSE r
         IN CHOOSE a \in {rest(r) :
                          r \in {IF filters[1] = "circular_symlink"
                                 THEN is_noncircular_symlink(layout, root, known_roots, path)
                                 ELSE <<not_hidden_name(path), known_roots>>}} : TRUE

\* the filters update() installs
UpdateFilters == <<"circular_symlink", "hidden_name">>

(***************************************************************************)
(* The store: the tables of migrations/0001_initial.py.  A database value *)
(* is [paths, anc, seq]: the rows of paths (a set, the ids being fresh),   *)
(* the rows of ancestors in the order they were written, and the          *)
(* AUTOINCREMENT counter of paths (sqlite_sequence).                       *)
(***************************************************************************)
EmptyDb == [paths |-> {}, anc |-> <<>>, seq |-> 0]

RECURSIVE SetMax(_)
SetMax(S) ==
    IF S = {} THEN 0
    ELSE LET x == CHOOSE y \in S : TRUE IN Max(x, SetMax(S \ {x}))

\* id INTEGER PRIMARY KEY AUTOINCREMENT: above every id handed out so far
NextId(db) == Max(db.seq, SetMax({r.id : r \in db.paths})) + 1

\* CHECK (depth >= 0) and UNIQUE (name, parent_id): SQL compares NULLs as
\* distinct, so a NULL parent_id never conflicts (the NOT NULL columns name,
\* is_dir and depth always get a value from a Path)
PathsConstraintsHold(db, row) ==
    /\ row.depth >= 0
    /\ ~\E r \in db.paths :
          r.name = row.name /\ row.parent_id # NULL /\ r.parent_id = row.parent_id

\* a CTE that stops at the parent instead of recursing to the top
new_ancestors_parent_only(paths, previous) ==
    LET found == {current \in paths :
                     current.id = previous.parent_id /\ current.parent_id # NULL}
    IN <<previous>> \o
       (IF found = {} THEN <<>>
        ELSE LET current == CHOOSE c \in found : TRUE
             IN <<[child_id |-> previous.child_id, parent_id |-> current.parent_id[1],
                   reldepth |-> previous.reldepth - 1]>>)

\* the recursive CTE new_ancestors of the trigger, as the sequence of its rows
RECURSIVE new_ancestors(_, _)
new_ancestors(paths, previous) ==
    LET found == {current \in paths :
                     current.id = previous.parent_id /\ current.parent_id # NULL}
    IN <<previous>> \o
       (IF found = {} THEN <<>>
        ELSE LET current == CHOOSE c \in found : TRUE
             IN new_ancestors(paths, [child_id |-> previous.child_id,
                                      parent_id |-> current.parent_id[1],
                                      reldepth |-> previous.reldepth - 1]))

\* INSERT INTO ancestors ... : UNIQUE (child_id, ancestor_id) ON CONFLICT
\* IGNORE, row by row (reldepth starts at 0 and only falls, so that
\* CHECK (reldepth <= 0) passes)
RECURSIVE InsertAncestors(_, _)
InsertAncestors(anc, rows) ==
    IF rows = <<>> THEN anc
    ELSE LET row == [child_id |-> rows[1].child_id, ancestor_id |-> rows[1].parent_id,
                     reldepth |-> rows[1].reldepth]
             dup == \E i \in 1..Len(anc) :
                       /\ anc[i].child_id = row.child_id
                       /\ anc[i].ancestor_id = row.ancestor_id
         IN InsertAncestors(IF dup THEN anc ELSE Append(anc, row), Tail(rows))

\* a trigger whose CTE lacks the row VALUES(NEW.id, NEW.id, 0) in its result
ancestors_without_own_row(paths, anc, new_row) ==
    InsertAncestors(anc, Tail(new_ancestors(paths,
        [child_id |-> new_row.id, parent_id |-> new_row.id, reldepth |-> 0])))

\* TRIGGER paths_after_insert_create_ancestors, run for the inserted row (NEW)
paths_after_insert_create_ancestors(paths, anc, new_row) ==
    InsertAncestors(anc, new_ancestors(paths,
        [child_id |-> new_row.id, parent_id |-> new_row.id, reldepth |-> 0]))

\* INSERT INTO paths (name, is_dir, parent_id, depth) VALUES (...), with the
\* trigger: [ok, db, lastrowid]
InsertPath(db, params) ==
    IF ~PathsConstraintsHold(db, params)
    THEN [ok |-> FALSE, db |-> db, lastrowid |-> 0]
    ELSE LET new_row == [id |-> NextId(db), name |-> params.name,
                     is_dir |-> params.is_dir, depth |-> params.depth,
                     parent_id |-> params.parent_id]
             paths == db.paths \cup {new_row}
         IN [ok |-> TRUE,
             db |-> [db EXCEPT
                       !.paths = paths,
                       !.anc = paths_after_insert_create_ancestors(paths, db.anc, new_row),
                       !.seq = new_row.id],
             lastrowid |-> new_row.id]

(***************************************************************************)
(* The schema of the store (migrations/0001_initial.py, database.py).  A   *)
(* database file is the record of the store extended by schema, the rows  *)
(* of sqlite_master, and versions, the rows of the ledger table _versions *)
(* in the order they were written.                                         *)
(***************************************************************************)
\* a row of sqlite_master
Obj(type, name, tbl_name) == [type |-> type, name |-> name, tbl_name |-> tbl_name]

\* a database file nothing was written to
EmptyFile == [schema |-> {}, versions |-> <<>>] @@ EmptyDb

\* SQL_STATEMENTS: the forward statements and, for the two tables, the
\* backward ones
CreatePaths ==
    [op |-> "CREATE TABLE", obj |-> Obj("table", "paths", "paths"),
     if_not_exists |-> FALSE, autoincrement |-> TRUE]

DropPaths == [op |-> "DROP TABLE", name |-> "paths", if_exists |-> TRUE]

CreateAncestors ==
    [op |-> "CREATE TABLE", obj |-> Obj("table", "ancestors", "ancestors"),
     if_not_exists |-> FALSE, autoincrement |-> FALSE]

DropAncestors == [op |-> "DROP TABLE", name |-> "ancestors", if_exists |-> TRUE]

CreateIndex ==
    [op |-> "CREATE", obj |-> Obj("index", "ancestors_child_depth_ancestor", "ancestors")]

CreateTrigger ==
    [op |-> "CREATE",
     obj |-> Obj("trigger", "paths_after_insert_create_ancestors", "paths")]

SQL_STATEMENTS ==
    << <<CreatePaths, DropPaths>>, <<CreateAncestors, DropAncestors>>,
       <<CreateIndex>>, <<CreateTrigger>> >>

\* CREATE TABLE IF NOT EXISTS _versions(name, comment, direction, applied_at_utc)
CreateVersions ==
    [op |-> "CREATE TABLE", obj |-> Obj("table", "_versions", "_versions"),
     if_not_exists |-> TRUE, autoincrement |-> FALSE]

\* INSERT INTO _versions(...) VALUES (...)
InsertVersion(version) == [op |-> "INSERT", into |-> "_versions", row |-> version]

Names(schema) == {o.name : o \in schema}

\* CREATE TABLE: an AUTOINCREMENT table brings the table sqlite_sequence
\* with it; [ok, db]
CreateTable(db, stmt) ==
    IF stmt.obj.name \in Names(db.schema)
    THEN [ok |-> stmt.if_not_exists, db |-> db]
    ELSE [ok |-> TRUE,
          db |-> [db EXCEPT !.schema =
                     @ \cup {stmt.obj}
                       \cup IF stmt.autoincrement
                            THEN {Obj("table", "sqlite_sequence", "sqlite_sequence")}
                            ELSE {}]]

\* CREATE INDEX or CREATE TRIGGER on a table; [ok, db]
CreateOn(db, stmt) ==
    IF \/ stmt.obj.name \in Names(db.schema)
       \/ Obj("table", stmt.obj.tbl_name, stmt.obj.tbl_name) \notin db.schema
    THEN [ok |-> FALSE, db |-> db]
    ELSE [ok |-> TRUE, db |-> [db EXCEPT !.schema = @ \cup {stmt.obj}]]

\* a DROP TABLE that leaves the indexes and triggers of the table behind
DropTableOnly(db, stmt) ==
    IF Obj("table", stmt.name, stmt.name) \notin db.schema
    THEN [ok |-> stmt.if_exists, db |-> db]
    ELSE [ok |-> TRUE,
          db |-> [db EXCEPT !.schema = @ \ {Obj("table", stmt.name, stmt.name)}]]

\* DROP TABLE: the rows of the table, its indexes and its triggers go with
\* it, and so does its row in sqlite_sequence (foreign keys are not
\* enforced: no connection hook turns them on); [ok, db]
DropTable(db, stmt) ==
    IF Obj("table", stmt.name, stmt.name) \notin db.schema
    THEN [ok |-> stmt.if_exists, db |-> db]
    ELSE [ok |-> TRUE,
          db |-> [db EXCEPT
                    !.schema = {o \in @ : o.tbl_name # stmt.name},
                    !.paths = IF stmt.name = "paths" THEN {} ELSE @,
                    !.seq = IF stmt.name = "paths" THEN 0 ELSE @,
                    !.anc = IF stmt.name = "ancestors" THEN <<>> ELSE @]]

\* INSERT INTO _versions; [ok, db]
InsertRow(db, stmt) ==
    IF Obj("table", stmt.into, stmt.into) \notin db.schema
    THEN [ok |-> FALSE, db |-> db]
    ELSE [ok |-> TRUE, db |-> [db EXCEPT !.versions = Append(@, stmt.row)]]

\* what a statement of a migration does to the database; [ok, db]
Run(db, stmt) ==
    IF stmt.op = "CREATE TABLE" THEN CreateTable(db, stmt)
    ELSE IF stmt.op = "CREATE" THEN CreateOn(db, stmt)
    ELSE IF stmt.op = "DROP TABLE" THEN DropTable(db, stmt)
    ELSE InsertRow(db, stmt)

(***************************************************************************)
(* Sessions (database.py) over sqlite3 connections.                        *)
(*                                                                         *)
(* A session is [owner, isolation, conn, schema, intx, lock, dirty, work]: *)
(* the thread that constructed it (the only one whose thread-local slot   *)
(* exists), its isolation mode, whether that slot holds an open           *)
(* connection, and for the connection: whether it has read the schema,    *)
(* sqlite's in_transaction flag, the file lock it holds, whether it has   *)
(* written in its transaction, and the database as its transaction sees   *)
(* it.                                                                     *)
(***************************************************************************)
\* session objects and threads of the model
NumSessions == 2
NumThreads == 2

Sessions == 1..NumSessions

Threads == 1..NumThreads

\* ISOLATION
Modes == {"DEFAULT", "AUTOCOMMIT", "DEFERRED", "IMMEDIATE", "EXCLUSIVE"}

NoTransaction == [intx |-> FALSE, lock |-> "none", dirty |-> FALSE, work |-> EmptyDb]

NoConnection == [conn |-> FALSE, schema |-> FALSE] @@ NoTransaction

\* SqliteSession.__init__
NewSession(owner, isolation) ==
    [owner |-> owner, isolation |-> isolation] @@ NoConnection

\* the session s with the connection fields f replaced
With(ss, s, f) == [ss EXCEPT ![s] = f @@ ss[s]]

Result(res, why, ss, st) == [res |-> res, why |-> why, sess |-> ss, store |-> st]

\* sqlite file locking (rollback journal): what the other connections hold
OtherLocks(ss, s) == {ss[o].lock : o \in Sessions \ {s}}

\* a shared lock that is granted whatever the others hold
CanShareAlways(ss, s) == TRUE

CanShare(ss, s) == OtherLocks(ss, s) \cap {"pending", "exclusive"} = {}

\* a reserved lock that is granted whatever the others hold
CanReserveAlways(ss, s) == TRUE

CanReserve(ss, s) ==
    OtherLocks(ss, s) \cap {"reserved", "pending", "exclusive"} = {}

CanExclude(ss, s) == OtherLocks(ss, s) \subseteq {"none"}

\* the database a connection reads
View(ss, st, s) == IF ss[s].dirty THEN ss[s].work ELSE st

\* a BEGIN that takes no lock, whatever the mode
SqlBeginLazily(ss, st, s, mode) == Result("ok", "", With(ss, s, [intx |-> TRUE]), st)

\* BEGIN [DEFERRED | IMMEDIATE | EXCLUSIVE] on a connection not in a transaction
SqlBegin(ss, st, s, mode) ==
    IF mode = "IMMEDIATE"
    THEN IF CanReserve(ss, s)
         THEN Result("ok", "", With(ss, s, [intx |-> TRUE, lock |-> "reserved"]), st)
         ELSE Result("Busy", "", ss, st)
    ELSE IF mode = "EXCLUSIVE"
    THEN IF CanExclude(ss, s)
         THEN Result("ok", "", With(ss, s, [intx |-> TRUE, lock |-> "exclusive"]), st)
         ELSE Result("Busy", "", ss, st)
    ELSE Result("ok", "", With(ss, s, [intx |-> TRUE]), st)

\* Connection.commit(): nothing outside a transaction; COMMIT of a write
\* transaction needs the exclusive lock, which waits for every reader, and
\* on failure the transaction stays open with a pending lock
SqlCommit(ss, st, s) ==
    IF ~ss[s].intx THEN Result("ok", "", ss, st)
    ELSE IF ss[s].lock \in {"none", "shared"}
    THEN Result("ok", "", With(ss, s, NoTransaction), st)
    ELSE IF CanExclude(ss, s)
    THEN Result("ok", "", With(ss, s, NoTransaction), View(ss, st, s))
    ELSE Result("Busy", "", With(ss, s, [lock |-> "pending"]), st)

\* a rollback that writes what the transaction had pending
SqlRollbackWriting(ss, st, s) ==
    Result("ok", "", With(ss, s, NoTransaction), View(ss, st, s))

\* Connection.rollback()
SqlRollback(ss, st, s) == Result("ok", "", With(ss, s, NoTransaction), st)

\* preparing the first statement on a connection reads the schema from the
\* file, under a shared lock taken for the moment
SqlPrepare(ss, st, s) ==
    IF ss[s].schema THEN Result("ok", "", ss, st)
    ELSE IF ss[s].lock = "none" /\ ~CanShare(ss, s) THEN Result("Busy", "", ss, st)
    ELSE Result("ok", "", With(ss, s, [schema |-> TRUE]), st)

\* a SELECT, its cursor fetched and closed: outside a transaction the shared
\* lock is gone when the statement ends
SqlSelect(ss, st, s) ==
    IF ss[s].lock = "none" /\ ~CanShare(ss, s) THEN Result("Busy", "", ss, st)
    ELSE IF ss[s].intx /\ ss[s].lock = "none"
    THEN Result("ok", "", With(ss, s, [lock |-> "shared"]), st)
    ELSE Result("ok", "", ss, st)

\* an INSERT INTO paths: inside a transaction the row stays pending; outside
\* one (autocommit) the statement commits itself
SqlInsert(ss, st, s, params) ==
    LET r == InsertPath(View(ss, st, s), params)
    IN IF ss[s].lock \in {"none", "shared"} /\ ~CanReserve(ss, s)
       THEN Result("Busy", "", ss, st)
       ELSE IF ss[s].intx
       THEN LET held == IF ss[s].lock \in {"none", "shared"} THEN "reserved"
                        ELSE ss[s].lock
            IN IF r.ok
               THEN Result("ok", "", With(ss, s, [lock |-> held, dirty |-> TRUE,
                                                   work |-> r.db]), st)
               ELSE Result("Integrity", "", With(ss, s, [lock |-> held]), st)
       ELSE IF ~r.ok THEN Result("Integrity", "", ss, st)
       ELSE IF CanExclude(ss, s) THEN Result("ok", "", ss, r.db)
       ELSE Result("Busy", "", ss, st)

\* a statement that changes the schema or the ledger: like the INSERT above,
\* it needs the reserved lock, stays pending inside a transaction and
\* commits itself outside one
SqlRun(ss, st, s, stmt) ==
    LET r == Run(View(ss, st, s), stmt)
    IN IF ss[s].lock \in {"none", "shared"} /\ ~CanReserve(ss, s)
       THEN Result("Busy", "", ss, st)
       ELSE IF ss[s].intx
       THEN LET held == IF ss[s].lock \in {"none", "shared"} THEN "reserved"
                        ELSE ss[s].lock
            IN IF r.ok
               THEN Result("ok", "", With(ss, s, [lock |-> held, dirty |-> TRUE,
                                                   work |-> r.db]), st)
               ELSE Result("OperationalError", "", With(ss, s, [lock |-> held]), st)
       ELSE IF ~r.ok THEN Result("OperationalError", "", ss, st)
       ELSE IF CanExclude(ss, s) THEN Result("ok", "", ss, r.db)
       ELSE Result("Busy", "", ss, st)

\* a _connection() that finds the connection slot from every thread
ConnectionErrorAnyThread(ss, t, s, may_be_none) ==
    IF ~ss[s].conn /\ ~may_be_none THEN "outside" ELSE ""

\* SqliteSession._connection(may_be_none=...): "" when it returns
ConnectionError(ss, t, s, may_be_none) ==
    IF ss[s].owner # t THEN "thread"
    ELSE IF ~ss[s].conn /\ ~may_be_none THEN "outside"
    ELSE ""

\* a Connection.execute that opens a transaction before every INSERT, also
\* when the isolation level is None
ConnExecuteInTransaction(ss, st, s, stmt, params) ==
    IF stmt = "BEGIN" THEN SqlBegin(ss, st, s, ss[s].isolation)
    ELSE LET p == SqlPrepare(ss, st, s)
         IN IF p.res # "ok" THEN p
            ELSE IF stmt = "SELECT" THEN SqlSelect(p.sess, st, s)
            ELSE IF ~ss[s].intx
            THEN LET b == SqlBegin(p.sess, st, s, ss[s].isolation)
                 IN IF b.res = "ok" THEN SqlInsert(b.sess, st, s, params) ELSE b
            ELSE SqlInsert(p.sess, st, s, params)

\* Connection.execute: the statement is prepared; before an INSERT sqlite3
\* opens a transaction unless the isolation level is None (AUTOCOMMIT) or
\* one is open already, before a statement on the schema ("SCHEMA") it
\* opens none; then the statement runs ("INSERT" is the INSERT INTO paths
\* of update(); every other statement is the record handed in as params)
ConnExecute(ss, st, s, stmt, params) ==
    IF stmt = "BEGIN" THEN SqlBegin(ss, st, s, ss[s].isolation)
    ELSE LET p == SqlPrepare(ss, st, s)
         IN IF p.res # "ok" THEN p
            ELSE IF stmt = "SELECT" THEN SqlSelect(p.sess, st, s)
            ELSE IF stmt = "SCHEMA" THEN SqlRun(p.sess, st, s, params)
            ELSE LET dml(conn) == IF stmt = "INSERT" THEN SqlInsert(conn, st, s, params)
                                  ELSE SqlRun(conn, st, s, params)
                 IN IF ss[s].isolation # "AUTOCOMMIT" /\ ~ss[s].intx
                    THEN LET b == SqlBegin(p.sess, st, s, ss[s].isolation)
                         IN IF b.res = "ok" THEN dml(b.sess) ELSE b
                    ELSE dml(p.sess)

\* an execute() that opens a connection when the session has none
SessionExecuteConnecting(ss, st, t, s, stmt, params) ==
    IF ss[s].owner # t THEN Result("SessionError", "thread", ss, st)
    ELSE ConnExecute(With(ss, s, [conn |-> TRUE]), st, s, stmt, params)

\* SqliteSession.execute
SessionExecute(ss, st, t, s, stmt, params) ==
    LET e == ConnectionError(ss, t, s, FALSE)
    IN IF e # "" THEN Result("SessionError", e, ss, st)
       ELSE ConnExecute(ss, st, s, stmt, params)

\* a commit() that returns without committing
SessionCommitDoesNothing(ss, st, t, s) ==
    LET e == ConnectionError(ss, t, s, FALSE)
    IN IF e # "" THEN Result("SessionError", e, ss, st)
       ELSE Result("ok", "", ss, st)

\* SqliteSession.commit
SessionCommit(ss, st, t, s) ==
    LET e == ConnectionError(ss, t, s, FALSE)
    IN IF e # "" THEN Result("SessionError", e, ss, st)
       ELSE SqlCommit(ss, st, s)

\* a close() that writes the pending changes to the store
SessionCloseCommitting(ss, st, t, s) ==
    LET e == ConnectionError(ss, t, s, TRUE)
    IN IF e # "" THEN Result("SessionError", e, ss, st)
       ELSE Result("ok", "", With(ss, s, NoConnection), View(ss, st, s))

\* SqliteSession.close: the slot is cleared and the connection closed, which
\* rolls back what it had pending
SessionClose(ss, st, t, s) ==
    LET e == ConnectionError(ss, t, s, TRUE)
    IN IF e # "" THEN Result("SessionError", e, ss, st)
       ELSE Result("ok", "", With(ss, s, NoConnection), st)

\* an __enter__ that opens a connection whether or not the session has one
SessionEnterAgain(ss, st, t, s) ==
    LET e == ConnectionError(ss, t, s, TRUE)
        opened == With(ss, s, [conn |-> TRUE] @@ NoConnection)
    IN IF e # "" THEN Result("SessionError", e, ss, st)
       ELSE IF ss[s].isolation \in {"DEFAULT", "AUTOCOMMIT"}
       THEN Result("ok", "", opened, st)
       ELSE SessionExecute(opened, st, t, s, "BEGIN", NULL)

\* SqliteSession._create_connection_once followed by the BEGIN of __enter__
SessionEnter(ss, st, t, s) ==
    LET e == ConnectionError(ss, t, s, TRUE)
        opened == With(ss, s, [conn |-> TRUE] @@ NoConnection)
    IN IF e # "" THEN Result("SessionError", e, ss, st)
       ELSE IF ss[s].conn THEN Result("SessionError", "nested", ss, st)
       ELSE IF ss[s].isolation \in {"DEFAULT", "AUTOCOMMIT"}
       THEN Result("ok", "", opened, st)
       ELSE SessionExecute(opened, st, t, s, "BEGIN", NULL)

\* an __exit__ without the "finally: self.close()"
SessionExitKeepsConnection(ss, st, t, s, exc) ==
    LET e == ConnectionError(ss, t, s, TRUE)
        ended == IF ss[s].conn /\ ss[s].intx
                 THEN IF exc THEN SqlRollback(ss, st, s) ELSE SqlCommit(ss, st, s)
                 ELSE Result("ok", "", ss, st)
    IN IF e # "" THEN Result("SessionError", e, ss, st)
       ELSE Result(ended.res, "", ended.sess, ended.store)

\* SqliteSession.__exit__(exc_type, ...): exc tells whether an exception is
\* propagating; the result is what __exit__ itself raises
SessionExit(ss, st, t, s, exc) ==
    LET e == ConnectionError(ss, t, s, TRUE)
        ended == IF ss[s].conn /\ ss[s].intx
                 THEN IF exc THEN SqlRollback(ss, st, s) ELSE SqlCommit(ss, st, s)
                 ELSE Result("ok", "", ss, st)
        closed == SessionClose(ended.sess, ended.store, t, s)
    IN IF e # "" THEN Result("SessionError", e, ss, st)
       ELSE Result(ended.res, "", closed.sess, closed.store)

(***************************************************************************)
(* The directory walker (files.py, recursive_scandir).  The generator is  *)
(* the record of its frame: where it stands (pc), its root, the LIFO      *)
(* dirstack, the directory being scanned (current, node), the entries of  *)
(* that directory not yet seen (todo), and what it has yielded so far.    *)
(* known_roots is the state of the circular-symlink filter handed to it.  *)
(***************************************************************************)
NoWalk ==
    [pc |-> "none", root |-> <<>>, dirstack |-> <<>>, current |-> <<>>, node |-> NoNode,
     todo |-> {}, known_roots |-> {}, yielded |-> <<>>]

\* the working directory of the process
getcwd == <<Ch.sep>>

\* os.path.abspath
abspath(path) == normpath(PathJoin(getcwd, path))

\* a comparison that finds every start path different from the root
differs_always(start) == TRUE

\* "if start != '.'": a Path equals a string that is its joined form
differs_from_root(start) == PathStr(start) # Dot

\* recursive_scandir(path, root=root, filters=...) from its first line to the
\* first yield or the raise: [walk, out], out holding the Path yielded, if any
\* (root is <<>> when none is given: "if not root: root = path = abspath(path)")
ScanStart(layout, path, root, known_roots) ==
    LET from(root_, startpath, start) ==
            LET w == [NoWalk EXCEPT !.root = root_, !.known_roots = known_roots]
            IN IF ~start.is_dir
               THEN IF ~exists(layout, startpath)
                    THEN [walk |-> [w EXCEPT !.pc = "raised"], out |-> <<>>]
                    ELSE [walk |-> [w EXCEPT !.pc = "done", !.yielded = <<start>>],
                          out |-> <<start>>]
               ELSE IF differs_from_root(start)
               THEN [walk |-> [w EXCEPT !.pc = "loop", !.dirstack = <<start>>,
                                        !.yielded = <<start>>],
                     out |-> <<start>>]
               ELSE [walk |-> [w EXCEPT !.pc = "loop", !.dirstack = <<start>>],
                     out |-> <<>>]
        at(root_, startpath) ==
            from(root_, startpath,
                 PathOf(relpath(startpath, root_), isdir(layout, startpath), NULL))
        under(root_) == at(root_, PathJoin(root_, path))
    IN IF root = <<>>
       THEN at(abspath(path), PathJoin(abspath(path), abspath(path)))
       ELSE under(abspath(root))

\* a scan that leaves the directory on the stack
ScanDirKeepsStack(layout, w) ==
    LET current == Last(w.dirstack)
        node == OsNode(layout, PathJoin(w.root, PathStr(current)), TRUE)
        todo == IF NodeIsDir(layout, node) THEN EntryNames(layout, node) ELSE {}
    IN [w EXCEPT !.current = <<current>>, !.node = node, !.todo = todo,
                 !.pc = IF todo = {} THEN "loop" ELSE "entries"]

\* while dirstack: current = dirstack.pop(); os.scandir(join(root, current.path));
\* a directory that cannot be scanned is logged and skipped
ScanDir(layout, w) ==
    LET current == Last(w.dirstack)
        scanpath == PathJoin(w.root, PathStr(current))
        node == OsNode(layout, scanpath, TRUE)
        todo == IF NodeIsDir(layout, node) THEN EntryNames(layout, node) ELSE {}
    IN [w EXCEPT !.dirstack = Front(w.dirstack), !.current = <<current>>, !.node = node,
                 !.todo = todo, !.pc = IF todo = {} THEN "loop" ELSE "entries"]

\* an except branch that lets the error go on to the caller
ScanErrorRaises(w) == [w EXCEPT !.todo = {}, !.pc = "raised"]

\* except OSError: log.error(...); continue -- what is left of the directory
\* is dropped and the loop goes on with the stack as it is
ScanError(w) == [w EXCEPT !.todo = {}, !.pc = "loop"]

\* one turn of "for entry in dir_entries" with the entry named rawname:
\* [walk, out], out holding the child yielded, empty when a filter rejected it
ScanEntry(layout, root, filters, w, rawname) ==
    LET todo == w.todo \ {rawname}
        filtered(child, accept) ==
            LET seen == [w EXCEPT !.todo = todo, !.known_roots = accept[2],
                                  !.pc = IF todo = {} THEN "loop" ELSE "entries"]
            IN IF ~accept[1] THEN [walk |-> seen, out |-> <<>>]
               ELSE [walk |-> [seen EXCEPT
                                  !.dirstack = IF child.is_dir
                                               THEN Append(w.dirstack, child)
                                               ELSE w.dirstack,
                                  !.yielded = Append(w.yielded, child)],
                     out |-> <<child>>]
        entry(child) ==
            CHOOSE r \in {filtered(child, accept) :
                             accept \in {AcceptAll(filters, layout, root, w.known_roots,
                                                   child)}} : TRUE
    IN CHOOSE r \in {entry(child) :
                        child \in {make_child(w.current[1], fsdecode(rawname),
                                              EntryIsDir(layout, w.node, rawname),
                                              EntryIsSymlink(layout, w.node, rawname))}} : TRUE

\* the generator has nothing more to yield
Exhausted(w) == w.pc = "done" \/ (w.pc = "loop" /\ w.dirstack = <<>>)

(***************************************************************************)
(* IdentifyPathView (media/data.py).  A result row holds, per column, NULL *)
(* or <<value>>.  Where SQLite leaves a choice (the row a bare column of   *)
(* an aggregate query is taken from), the view is the set of the results   *)
(* it can give.                                                            *)
(***************************************************************************)
RECURSIVE RowsById(_)
RowsById(S) ==
    IF S = {} THEN <<>>
    ELSE LET r == CHOOSE x \in S : \A y \in S : x.id <= y.id
         IN <<r>> \o RowsById(S \ {r})

NamesOf(rows) == [i \in 1..Len(rows) |-> rows[i].name]

\* names = [os.fsencode(p) for p in pathstr.split(os.path.sep)]
QueryNames(pathstr) == LET parts == Split(pathstr) IN [i \in 1..Len(parts) |-> fsencode(parts[i])]

\* BytePath: step() once per row, finalize() = os.path.join(b'', *aggr); over
\* no row at all the aggregate gives NULL
BYTE_PATH(names) == IF names = <<>> THEN NULL ELSE Some(PathJoinAll(<<>>, names))

\* SELECT id, name, BYTE_PATH(name) AS path, is_dir, depth FROM <rows>: one
\* row always; id, name, is_dir and depth are bare columns, taken from the
\* row bare of the input (NULL when there is none)
AggregateRow(rows, bare) ==
    IF rows = <<>>
    THEN [id |-> NULL, name |-> NULL, path |-> NULL, is_dir |-> NULL, depth |-> NULL]
    ELSE [id |-> Some(rows[bare].id), name |-> Some(rows[bare].name),
          path |-> BYTE_PATH(NamesOf(rows)), is_dir |-> Some(rows[bare].is_dir),
          depth |-> Some(rows[bare].depth)]

\* WITH RECURSIVE recurse: the rows found from the set previous on, level by
\* level; a row joins when its parent is in the level before and one of the
\* clauses "name = ? AND depth = ?" holds for it
RECURSIVE recurse(_, _, _)
recurse(paths, names, previous) ==
    IF previous = {} THEN <<>>
    ELSE RowsById(previous) \o
         recurse(paths, names,
                 {path \in paths :
                     /\ \E prev \in previous : path.parent_id = Some(prev.id)
                     /\ \E i \in 1..Len(names) : path.name = names[i] /\ path.depth = i})

\* the rows the query reads its aggregate from
IdentifyRows(db, names) ==
    LET first == {path \in db.paths : path.name = names[1] /\ path.depth = 1}
    IN IF Len(names) = 1 THEN RowsById(first) ELSE recurse(db.paths, names, first)

\* IdentifyPathView(pathstr).select_all(): the set of possible result lists;
\* with several names the outer query keeps the row only WHERE depth = N
IdentifyPathView(db, pathstr) ==
    LET names == QueryNames(pathstr)
        rows == IdentifyRows(db, names)
        result(bare) ==
            LET row == AggregateRow(rows, bare)
            IN IF Len(names) = 1 \/ row.depth = Some(Len(names)) THEN <<row>> ELSE <<>>
    IN IF rows = <<>> THEN {result(1)} ELSE {result(bare) : bare \in 1..Len(rows)}

(***************************************************************************)
(* PathByIdView (media/data.py, the definition of lines 78-98, which       *)
(* replaces the class of the same name above it).                          *)
(***************************************************************************)
\* the rows of ancestors in the order of the index
\* ancestors_child_depth_ancestor(child_id, reldepth, ancestor_id), by which
\* the query searches the rows of one child_id
RECURSIVE IndexOrder(_)
IndexOrder(S) ==
    IF S = {} THEN <<>>
    ELSE LET r == CHOOSE x \in S : \A y \in S :
                     \/ x.reldepth < y.reldepth
                     \/ x.reldepth = y.reldepth /\ x.ancestor_id <= y.ancestor_id
         IN <<r>> \o IndexOrder(S \ {r})

\* FROM paths AS path, ancestors AS parent WHERE path.id = parent.ancestor_id
\* AND parent.child_id = child: the joined rows of one group, as visited
GroupRows(db, child) ==
    LET anc == IndexOrder({db.anc[i] : i \in {j \in 1..Len(db.anc) :
                                                  db.anc[j].child_id = child}})
        joined == SelectSeq(anc, LAMBDA a : \E R \in db.paths : R.id = a.ancestor_id)
    IN [i \in 1..Len(joined) |->
           CHOOSE R \in db.paths : R.id = joined[i].ancestor_id]

\* GROUP BY child_id: one record for the group; id, name and is_dir are bare
\* columns, taken from a row of the group SQLite chooses, path aggregates
\* the names of all its rows
GroupRecords(db, child) ==
    LET rows == GroupRows(db, child)
    IN {[id |-> rows[bare].id, name |-> rows[bare].name,
         is_dir |-> rows[bare].is_dir, path |-> PathJoinAll(<<>>, NamesOf(rows))] :
        bare \in 1..Len(rows)}

\* the results over the groups of these child ids, in this order
RECURSIVE GroupResults(_, _)
GroupResults(db, children) ==
    IF children = <<>> THEN {<<>>}
    ELSE {<<rec>> \o rest : rec \in GroupRecords(db, children[1]),
                            rest \in GroupResults(db, Tail(children))}

\* ascending
RECURSIVE Ascending(_)
Ascending(S) ==
    IF S = {} THEN <<>>
    ELSE LET m == CHOOSE x \in S : \A y \in S : x <= y
         IN <<m>> \o Ascending(S \ {m})

\* PathByIdView(id_, *ids).select_all(): the set of possible result lists,
\* one record per child_id IN (ids) that has rows, ORDER BY child_id
PathByIdView(db, ids) ==
    GroupResults(db, Ascending({ids[i] : i \in 1..Len(ids)}
                               \cap {db.anc[i].child_id : i \in 1..Len(db.anc)}))

(***************************************************************************)
(* State.                                                                  *)
(*   store   the committed database, as the file holds it                  *)
(*   sess    the session objects                                           *)
(*   scope   for each session, whether control is inside its with block    *)
(*   last    the last call made on a session and how it ended               *)
(*   fs      the directory tree on disk and the media root configured      *)
(*   walk    the frame of update()'s recursive_scandir generator            *)
(*   upd     the frame of update() and the record of its last pass         *)
(*   lookup  the last IdentifyPathView query and its result                *)
(*   mig     the frame of apply_migration_to_db and what its last call did *)
(*   scanned the recursive_scandir call being consumed on its own          *)
(*   flt     a circular_symlink_filter called on its own, and its calls    *)
(*   vals    Path values constructed on their own, and how each was made   *)
(***************************************************************************)
VARIABLES store, sess, scope, last, fs, walk, upd, lookup, mig, scanned, flt, vals

vars == <<store, sess, scope, last, fs, walk, upd, lookup, mig, scanned, flt, vals>>

\* no call yet; a call is recorded with its thread, its session, whether an
\* exception was handed to it (exc), what it raised (res, why), and whether
\* the connection was in a transaction (intx) that had written (dirty) when
\* the call was made
NoCall ==
    [op |-> "none", t |-> 0, s |-> 0, exc |-> FALSE, res |-> "", why |-> "",
     intx |-> FALSE, dirty |-> FALSE]

NoLookup == [q |-> <<>>, rows |-> <<>>, asked |-> FALSE, ids |-> <<>>, by_id |-> FALSE]

\* no migration applied yet: the frame of apply_migration_to_db holds the
\* migration and direction of the call, the steps still to run (todo), how
\* many have run (done), how the last call ended (res), the database as it
\* was when the call was made (base), and the successful calls so far
NoMigration ==
    [pc |-> "idle", n |-> 0, migration |-> <<>>, backward |-> FALSE, todo |-> <<>>,
     done |-> 0, res |-> "none", base |-> EmptyFile, applied |-> <<>>]

\* no recursive_scandir call made on its own yet; of a call the frame keeps
\* the directories taken off the stack so far (entered) and, for every
\* OSError caught, the walk as it stood when the error was raised (errors);
\* of a call of the walker that takes one, its max_depth and its start path
NoScan ==
    [path |-> <<>>, root |-> <<>>, filters |-> <<>>, n |-> 0,
     entered |-> <<>>, errors |-> <<>>, max_depth |-> NULL, start |-> <<>>]

\* no Path constructed on its own yet
NoPaths == <<>>

\* no circular_symlink_filter made on its own yet
NoFilter == [made |-> FALSE, root |-> <<>>, known_roots |-> {}, calls |-> <<>>]

(***************************************************************************)
(* update(database, start_path, root=..., commit_every=...) of             *)
(* media/data.py.  The pass runs in session UpdSession on thread           *)
(* UpdThread; one step of the model is one step of the generator together  *)
(* with the loop body run for what it yields.  An exception raised inside  *)
(* the with block leaves it through __exit__ in the same step.             *)
(***************************************************************************)
UpdSession == 1

UpdThread == 1

\* the frame before any call; c = 0 stands for the unbound name c
NoUpdate ==
    [pc |-> "idle", pass |-> 0, start |-> <<>>, root |-> <<>>, commit_every |-> 0,
     c |-> 0, path_ids |-> <<>>, inserted |-> <<>>, committed |-> 0,
     base |-> EmptyDb, res |-> "none", at |-> ""]

\* path_ids.get(path.parent): Paths hash and compare by their joined form
path_ids_get(path_ids, key) ==
    IF key \in DOMAIN path_ids THEN Some(path_ids[key]) ELSE NULL

\* cursor.lastrowid of the INSERT a connection runs
LastRowId(ss, st, s, params) == InsertPath(View(ss, st, s), params).lastrowid

\* the body of "for c, path in enumerate(iter_paths, start=1)", lines 36-48:
\* [res, at, sess, store, upd] (the progress line of every 10000th path lies
\* beyond the bounds)
LoopBody(ss, st, u, path) ==
    LET c == u.c + 1
        committed(com, u1) ==
            IF com.res # "ok"
            THEN [res |-> com.res, at |-> "commit", sess |-> com.sess,
                  store |-> com.store, upd |-> u1]
            ELSE [res |-> "ok", at |-> "", sess |-> com.sess, store |-> com.store,
                  upd |-> [u1 EXCEPT !.committed = c]]
        inserted(ins, u1) ==
            IF ins.res # "ok"
            THEN [res |-> ins.res, at |-> "insert", sess |-> ins.sess,
                  store |-> ins.store, upd |-> [u EXCEPT !.c = c]]
            ELSE IF ~(u.commit_every # 0 /\ c % u.commit_every = 0)
            THEN [res |-> "ok", at |-> "", sess |-> ins.sess, store |-> ins.store,
                  upd |-> u1]
            ELSE committed(SessionCommit(ins.sess, ins.store, UpdThread, UpdSession),
                           u1)
        counted(params, path_id) ==
            [u EXCEPT !.c = c,
                      !.path_ids = (PathStr(path) :> path_id) @@ u.path_ids,
                      !.inserted = Append(u.inserted,
                          [id |-> path_id, path |-> PathStr(path),
                           parent |-> path.parent, params |-> params])]
        insert(params) ==
            inserted(SessionExecute(ss, st, UpdThread, UpdSession, "INSERT", params),
                     counted(params, LastRowId(ss, st, UpdSession, params)))
    IN insert([name |-> fsencode(path.name), is_dir |-> path.is_dir,
               parent_id |-> path_ids_get(u.path_ids, path.parent),
               depth |-> path.depth])

\* an exception leaves the with block of line 25: __exit__ rolls back and
\* closes, and update() ends with the exception
Raise(ss, st, u, res, at) ==
    LET x == SessionExit(ss, st, UpdThread, UpdSession, TRUE)
    IN /\ sess' = x.sess
       /\ store' = x.store
       /\ scope' = [scope EXCEPT ![UpdSession] = FALSE]
       /\ upd' = [u EXCEPT !.pc = "idle", !.res = res, !.at = at]

\* the loop goes on after a body that raised nothing
Continue(r) ==
    IF r.res = "ok"
    THEN /\ sess' = r.sess
         /\ store' = r.store
         /\ upd' = r.upd
         /\ UNCHANGED scope
    ELSE Raise(r.sess, r.store, r.upd, r.res, r.at)

\* the media roots and the arguments the model hands to update()
Roots == {<<Ch.sep>> \o nR, <<Ch.sep>> \o nR \o <<Ch.sep>> \o nA}

StartPaths ==
    {Dot, nA, nA \o <<Ch.sep>> \o nB, nA \o <<Ch.sep>> \o nB \o <<Ch.sep>> \o nF,
     fsdecode(nX), nLink, nZ}

\* update() from its first line to the first yield of the walker and the
\* loop body run for it (the passes of a run come before its lookups)
UpdCall(start_path, commit_every) ==
    /\ upd.pc = "idle"
    /\ upd.pass < MaxPasses
    /\ ~lookup.asked /\ ~lookup.by_id
    /\ \E entered \in {SessionEnter(With(sess, UpdSession, NoConnection), store,
                                     UpdThread, UpdSession)},
          scan \in {ScanStart(fs.layout, start_path, fs.root,
                              InitialKnownRoots(fs.layout, fs.root))},
          u \in {[NoUpdate EXCEPT !.pc = "running", !.pass = upd.pass + 1,
                                  !.start = start_path, !.root = fs.root,
                                  !.commit_every = commit_every, !.base = store]} :
          /\ walk' = scan.walk
          /\ IF scan.walk.pc = "raised"
             THEN Raise(entered.sess, entered.store, u, "FileNotFoundError", "scan")
             ELSE IF scan.out = <<>>
             THEN /\ sess' = entered.sess
                  /\ store' = entered.store
                  /\ upd' = u
                  /\ scope' = [scope EXCEPT ![UpdSession] = TRUE]
             ELSE \E r \in {LoopBody(entered.sess, entered.store, u, scan.out[1])} :
                     IF r.res = "ok"
                     THEN /\ sess' = r.sess
                          /\ store' = r.store
                          /\ upd' = r.upd
                          /\ scope' = [scope EXCEPT ![UpdSession] = TRUE]
                     ELSE Raise(r.sess, r.store, r.upd, r.res, r.at)
    /\ UNCHANGED <<last, fs, lookup, mig, scanned, flt, vals>>

\* the walker takes the next directory off its stack and scans it
UpdScanDir ==
    /\ upd.pc = "running"
    /\ walk.pc = "loop"
    /\ walk.dirstack # <<>>
    /\ walk' = ScanDir(fs.layout, walk)
    /\ UNCHANGED <<store, sess, scope, last, fs, upd, lookup, mig, scanned, flt, vals>>

\* the walker looks at one entry of the directory; if it yields the entry,
\* the loop body runs for it
UpdEntry(rawname) ==
    /\ upd.pc = "running"
    /\ walk.pc = "entries"
    /\ rawname \in walk.todo
    /\ \E scan \in {ScanEntry(fs.layout, upd.root, UpdateFilters, walk, rawname)} :
          /\ walk' = scan.walk
          /\ IF scan.out = <<>>
             THEN UNCHANGED <<store, sess, scope, upd>>
             ELSE Continue(LoopBody(sess, store, upd, scan.out[1]))
    /\ UNCHANGED <<last, fs, lookup, mig, scanned, flt, vals>>

\* the walker is exhausted: line 49 reads c, then the with block is left,
\* which commits
UpdEnd ==
    /\ upd.pc = "running"
    /\ Exhausted(walk)
    /\ IF upd.c = 0
       THEN Raise(sess, store, upd, "UnboundLocalError", "print")
       ELSE LET x == SessionExit(sess, store, UpdThread, UpdSession, FALSE)
            IN /\ sess' = x.sess
               /\ store' = x.store
               /\ scope' = [scope EXCEPT ![UpdSession] = FALSE]
               /\ upd' = IF x.res = "ok"
                         THEN [upd EXCEPT !.pc = "idle", !.res = "ok",
                                          !.committed = upd.c]
                         ELSE [upd EXCEPT !.pc = "idle", !.res = x.res, !.at = "exit"]
    /\ UNCHANGED <<last, fs, walk, lookup, mig, scanned, flt, vals>>

(***************************************************************************)
(* Another thread of the program that reads the database in a session of  *)
(* its own while update() runs: with database.session(isolation=...) as s *)
(* around s.execute(SELECT ...).                                           *)
(***************************************************************************)
EnvSession == 2

EnvThread == 2

EnvModes == {"DEFERRED", "IMMEDIATE"}

\* session(isolation=mode).__enter__(); a session whose __enter__ raised is
\* dropped, and its connection closed with it
EnvEnter(mode) ==
    /\ ~scope[EnvSession]
    /\ LET made == [sess EXCEPT ![EnvSession] = NewSession(EnvThread, mode)]
           r == SessionEnter(made, store, EnvThread, EnvSession)
       IN IF r.res = "ok"
          THEN /\ sess' = r.sess
               /\ scope' = [scope EXCEPT ![EnvSession] = TRUE]
          ELSE /\ sess' = made
               /\ UNCHANGED scope
    /\ UNCHANGED <<store, last, fs, walk, upd, lookup, mig, scanned, flt, vals>>

\* s.execute(SELECT ...) inside the block; if it raises, the block is left
EnvSelect ==
    /\ scope[EnvSession]
    /\ LET r == SessionExecute(sess, store, EnvThread, EnvSession, "SELECT", NULL)
           x == SessionExit(r.sess, r.store, EnvThread, EnvSession, TRUE)
       IN IF r.res = "ok"
          THEN /\ sess' = r.sess
               /\ UNCHANGED scope
          ELSE /\ sess' = x.sess
               /\ scope' = [scope EXCEPT ![EnvSession] = FALSE]
    /\ UNCHANGED <<store, last, fs, walk, upd, lookup, mig, scanned, flt, vals>>

\* the end of the block
EnvExit ==
    /\ scope[EnvSession]
    /\ LET x == SessionExit(sess, store, EnvThread, EnvSession, FALSE)
       IN /\ sess' = x.sess
          /\ store' = x.store
    /\ scope' = [scope EXCEPT ![EnvSession] = FALSE]
    /\ UNCHANGED <<last, fs, walk, upd, lookup, mig, scanned, flt, vals>>

(***************************************************************************)
(* A lookup between passes: IdentifyPathView(database).select_all(q).      *)
(***************************************************************************)
\* queries that name nothing in any layout: an unknown name, the empty
\* string, a lone separator, a wrong last component, a trailing separator
BadQueries ==
    {nZ, <<>>, <<Ch.sep>>, nA \o <<Ch.sep>> \o nZ, nA \o <<Ch.sep>> \o nB \o <<Ch.sep>>}

\* the paths the last pass inserted, as it named them
InsertedPaths == {upd.inserted[i].path : i \in 1..Len(upd.inserted)}

Identify(q) ==
    /\ upd.pc = "idle"
    /\ \A o \in Sessions : sess[o].lock \notin {"pending", "exclusive"}
    /\ \E rows \in IdentifyPathView(store, q) :
          lookup' = [NoLookup EXCEPT !.q = q, !.rows = rows, !.asked = TRUE]
    /\ UNCHANGED <<store, sess, scope, last, fs, walk, upd, mig, scanned, flt, vals>>

\* the lists of ids asked for: every id alone, the one after the last
\* (which no row has) included, the last id twice, and the unknown id
\* before the first
IdLists(db) ==
    {<<i>> : i \in 1..(db.seq + 1)}
      \cup {<<i, i>> : i \in {db.seq} \ {0}} \cup {<<db.seq + 1, 1>>}

\* PathByIdView(database).select_all(*ids) between passes
PathById(ids) ==
    /\ upd.pc = "idle"
    /\ \A o \in Sessions : sess[o].lock \notin {"pending", "exclusive"}
    /\ \E rows \in PathByIdView(store, ids) :
          lookup' = [NoLookup EXCEPT !.ids = ids, !.rows = rows, !.by_id = TRUE]
    /\ UNCHANGED <<store, sess, scope, last, fs, walk, upd, mig, scanned, flt, vals>>

(***************************************************************************)
(* The specification of update passes and lookups over one store.          *)
(***************************************************************************)
InitUpdate ==
    /\ store = EmptyDb
    /\ sess = [s \in Sessions |->
                 IF s = UpdSession THEN NewSession(UpdThread, "DEFAULT")
                 ELSE NewSession(EnvThread, "DEFERRED")]
    /\ scope = [s \in Sessions |-> FALSE]
    /\ last = NoCall
    /\ fs \in [layout : Layouts, root : Roots]
    /\ walk = NoWalk
    /\ upd = NoUpdate
    /\ lookup = NoLookup
    /\ mig = NoMigration
    /\ scanned = NoScan
    /\ flt = NoFilter
    /\ vals = NoPaths

NextUpdate ==
    \/ \E start_path \in StartPaths, commit_every \in 0..MaxCommitEvery :
          UpdCall(start_path, commit_every)
    \/ UpdScanDir
    \/ \E rawname \in walk.todo : UpdEntry(rawname)
    \/ UpdEnd
    \/ \E mode \in EnvModes : EnvEnter(mode)
    \/ EnvSelect
    \/ EnvExit
    \/ \E q \in InsertedPaths \cup BadQueries : Identify(q)
    \/ \E ids \in IdLists(store) : PathById(ids)

SpecUpdate == InitUpdate /\ [][NextUpdate]_vars

(***************************************************************************)
(* The specification of sessions used directly: threads enter and leave   *)
(* the scopes of the sessions and call execute, commit and close on them. *)
(***************************************************************************)
\* rows an INSERT of this specification may bring the table to
MaxRows == 2

\* the row the INSERTs of this specification write
RootRow == [name |-> nA, is_dir |-> FALSE, parent_id |-> NULL, depth |-> 1]

Called(op, t, s, exc, r) ==
    [op |-> op, t |-> t, s |-> s, exc |-> exc, res |-> r.res, why |-> r.why,
     intx |-> sess[s].conn /\ sess[s].intx, dirty |-> sess[s].dirty]

\* with session: ... is entered by thread t; a scope is entered once
SessEnter(t, s) ==
    LET r == SessionEnter(sess, store, t, s)
    IN /\ ~(scope[s] /\ r.res = "ok")
       /\ sess' = r.sess
       /\ store' = r.store
       /\ scope' = IF r.res = "ok" THEN [scope EXCEPT ![s] = TRUE] ELSE scope
       /\ last' = Called("enter", t, s, FALSE, r)
       /\ UNCHANGED <<fs, walk, upd, lookup, mig, scanned, flt, vals>>

\* session.execute(sql) called by thread t
SessExecute(t, s, stmt) ==
    LET r == SessionExecute(sess, store, t, s, stmt, RootRow)
    IN /\ stmt = "INSERT" => Cardinality(View(sess, store, s).paths) < MaxRows
       /\ sess' = r.sess
       /\ store' = r.store
       /\ last' = Called(stmt, t, s, FALSE, r)
       /\ UNCHANGED <<scope, fs, walk, upd, lookup, mig, scanned, flt, vals>>

\* session.commit() called by thread t
SessCommit(t, s) ==
    LET r == SessionCommit(sess, store, t, s)
    IN /\ sess' = r.sess
       /\ store' = r.store
       /\ last' = Called("commit", t, s, FALSE, r)
       /\ UNCHANGED <<scope, fs, walk, upd, lookup, mig, scanned, flt, vals>>

\* session.close() called by thread t
SessClose(t, s) ==
    LET r == SessionClose(sess, store, t, s)
    IN /\ sess' = r.sess
       /\ store' = r.store
       /\ last' = Called("close", t, s, FALSE, r)
       /\ UNCHANGED <<scope, fs, walk, upd, lookup, mig, scanned, flt, vals>>

\* session.__exit__ called by thread t: by the thread that entered the with
\* block of session s when it leaves the block, with an exception
\* propagating (exc) or without, or by another thread on its own
SessExit(t, s, exc) ==
    LET r == SessionExit(sess, store, t, s, exc)
    IN /\ t = sess[s].owner => scope[s]
       /\ sess' = r.sess
       /\ store' = r.store
       /\ scope' = IF t = sess[s].owner THEN [scope EXCEPT ![s] = FALSE] ELSE scope
       /\ last' = Called("exit", t, s, exc, r)
       /\ UNCHANGED <<fs, walk, upd, lookup, mig, scanned, flt, vals>>

InitSession ==
    /\ store = EmptyDb
    /\ sess \in [Sessions -> {NewSession(t, mode) : t \in Threads, mode \in Modes}]
    /\ sess[1].owner = 1
    /\ scope = [s \in Sessions |-> FALSE]
    /\ last = NoCall
    /\ fs = [layout |-> LayoutEmpty, root |-> <<Ch.sep>> \o nR]
    /\ walk = NoWalk
    /\ upd = NoUpdate
    /\ lookup = NoLookup
    /\ mig = NoMigration
    /\ scanned = NoScan
    /\ flt = NoFilter
    /\ vals = NoPaths

NextSession ==
    \/ \E t \in Threads, s \in Sessions : SessEnter(t, s)
    \/ \E t \in Threads, s \in Sessions, stmt \in {"SELECT", "INSERT"} :
          SessExecute(t, s, stmt)
    \/ \E t \in Threads, s \in Sessions : SessCommit(t, s)
    \/ \E t \in Threads, s \in Sessions : SessClose(t, s)
    \/ \E t \in Threads, s \in Sessions, exc \in BOOLEAN : SessExit(t, s, exc)

SpecSession == InitSession /\ [][NextSession]_vars

(***************************************************************************)
(* Migrations (database.py, migrations/0001_initial.py).                   *)
(* apply_migration_to_db runs in session MigSession on thread MigThread;   *)
(* one step of the model is one statement of the call, so that the other   *)
(* thread's session (EnvEnter, EnvSelect, EnvExit above) can come between  *)
(* the steps of a migration.                                               *)
(***************************************************************************)
\* calls of apply_migration_to_db made one after the other
MaxApplications == 3

MigSession == 1

MigThread == 1

\* the first index of character c in s, 0 when there is none
RECURSIVE Find(_, _, _)
Find(s, c, i) ==
    IF i > Len(s) THEN 0 ELSE IF s[i] = c THEN i ELSE Find(s, c, i + 1)

\* Migration.__init__: name.split('_', 1) when '_' in name[1:]
Migration(name, module_name) ==
    IF Find(name, Ch.us, 2) # 0
    THEN [name |-> SubSeq(name, 1, Find(name, Ch.us, 1) - 1),
          comment |-> SubSeq(name, Find(name, Ch.us, 1) + 1, Len(name)),
          module_name |-> module_name]
    ELSE [name |-> name, comment |-> <<>>, module_name |-> module_name]

\* zip_longest(*SQL_STATEMENTS)[k]: the k-th statement of every entry, None
\* where an entry has none
zip_longest(k) ==
    [i \in 1..Len(SQL_STATEMENTS) |->
        IF k <= Len(SQL_STATEMENTS[i]) THEN Some(SQL_STATEMENTS[i][k]) ELSE NULL]

\* "for sql_statement in ...: if sql_statement: yield partial(session.execute, ...)"
RECURSIVE Steps(_)
Steps(statements) ==
    IF statements = <<>> THEN <<>>
    ELSE statements[1] \o Steps(Tail(statements))

\* migrations/0001_initial.py as load_migrations makes it
Migration0001 ==
    [forward_steps |-> Steps(zip_longest(1)), backward_steps |-> Steps(zip_longest(2))]
    @@ Migration(<<Ch.d0, Ch.d0, Ch.d0, Ch.d1, Ch.us, Ch.i, Ch.n, Ch.i, Ch.t, Ch.i,
                   Ch.a, Ch.l>>, "cherrymusic.media")

\* a Migration subclass handed in by a caller: it builds the closure table
\* and its index before the table of paths, and takes the closure table away
Migration0002 ==
    [forward_steps |-> <<CreateAncestors, CreateIndex, CreatePaths>>,
     backward_steps |-> <<DropAncestors>>]
    @@ Migration(<<Ch.d0, Ch.d0, Ch.d0, Ch.d2>>, "cherrymusic.media")

Migrations == {Migration0001, Migration0002}

\* a ledger row that says FORWARD whatever the direction
version_always_forward(migration, backward, now) ==
    [name |-> migration.name, comment |-> migration.comment, direction |-> "FORWARD",
     applied_at_utc |-> now]

\* the ledger row of an application; now is what the clock reads
version(migration, backward, now) ==
    [name |-> migration.name, comment |-> migration.comment,
     direction |-> IF backward THEN "BACKWARD" ELSE "FORWARD",
     applied_at_utc |-> now]

\* an exception leaves the with block of apply_migration_to_db
MigRaise(ss, st, frame, res) ==
    \E x \in {SessionExit(ss, st, MigThread, MigSession, TRUE)} :
       /\ sess' = x.sess
       /\ store' = x.store
       /\ scope' = [scope EXCEPT ![MigSession] = FALSE]
       /\ mig' = [frame EXCEPT !.pc = "idle", !.res = res]

\* apply_migration_to_db(migration, db, backward=...) up to the choice of
\* the steps: the session is made and entered (if __enter__ raises, the
\* session is dropped and its connection closed with it), and the ledger
\* table is created if it is not there
MigCall(migration, backward) ==
    /\ mig.pc = "idle"
    /\ mig.n < MaxApplications
    /\ \E made \in {[sess EXCEPT ![MigSession] = NewSession(MigThread, "EXCLUSIVE")]},
          frame \in {[mig EXCEPT !.n = @ + 1, !.migration = <<migration>>,
                                 !.backward = backward, !.todo = <<>>, !.done = 0,
                                 !.base = store]} :
          \E entered \in {SessionEnter(made, store, MigThread, MigSession)} :
             IF entered.res # "ok"
             THEN /\ sess' = made
                  /\ mig' = [frame EXCEPT !.res = entered.res]
                  /\ UNCHANGED <<store, scope>>
             ELSE \E created \in {SessionExecute(entered.sess, entered.store, MigThread,
                                                 MigSession, "SCHEMA", CreateVersions)} :
                     IF created.res # "ok"
                     THEN MigRaise(created.sess, created.store, frame, created.res)
                     ELSE /\ sess' = created.sess
                          /\ store' = created.store
                          /\ scope' = [scope EXCEPT ![MigSession] = TRUE]
                          /\ mig' = [frame EXCEPT
                                       !.pc = "steps", !.res = "none",
                                       !.todo = IF backward
                                                THEN migration.backward_steps
                                                ELSE migration.forward_steps]
    /\ UNCHANGED <<last, fs, walk, upd, lookup, scanned, flt, vals>>

\* "for step in steps(session): step()", one step
MigStep ==
    /\ mig.pc = "steps"
    /\ mig.todo # <<>>
    /\ \E r \in {SessionExecute(sess, store, MigThread, MigSession, "SCHEMA",
                                Head(mig.todo))} :
          IF r.res # "ok"
          THEN MigRaise(r.sess, r.store, mig, r.res)
          ELSE /\ sess' = r.sess
               /\ store' = r.store
               /\ mig' = [mig EXCEPT !.todo = Tail(@), !.done = @ + 1]
               /\ UNCHANGED scope
    /\ UNCHANGED <<last, fs, walk, upd, lookup, scanned, flt, vals>>

\* the steps are done: the ledger row is inserted and the with block left,
\* which commits
MigRecord ==
    /\ mig.pc = "steps"
    /\ mig.todo = <<>>
    /\ \E r \in {SessionExecute(sess, store, MigThread, MigSession, "INSERT INTO",
                                InsertVersion(version(mig.migration[1], mig.backward,
                                                      mig.n)))} :
          IF r.res # "ok"
          THEN MigRaise(r.sess, r.store, mig, r.res)
          ELSE \E x \in {SessionExit(r.sess, r.store, MigThread, MigSession, FALSE)} :
                  /\ sess' = x.sess
                  /\ store' = x.store
                  /\ scope' = [scope EXCEPT ![MigSession] = FALSE]
                  /\ mig' = [mig EXCEPT
                               !.pc = "idle", !.res = x.res,
                               !.applied = IF x.res = "ok"
                                           THEN Append(@, <<mig.migration[1].name,
                                                            mig.backward>>)
                                           ELSE @]
    /\ UNCHANGED <<last, fs, walk, upd, lookup, scanned, flt, vals>>

InitMigrate ==
    /\ store = EmptyFile
    /\ sess = [s \in Sessions |->
                 IF s = MigSession THEN NewSession(MigThread, "EXCLUSIVE")
                 ELSE NewSession(EnvThread, "DEFERRED")]
    /\ scope = [s \in Sessions |-> FALSE]
    /\ last = NoCall
    /\ fs = [layout |-> LayoutEmpty, root |-> <<Ch.sep>> \o nR]
    /\ walk = NoWalk
    /\ upd = NoUpdate
    /\ lookup = NoLookup
    /\ mig = NoMigration
    /\ scanned = NoScan
    /\ flt = NoFilter
    /\ vals = NoPaths

NextMigrate ==
    \/ \E migration \in Migrations, backward \in BOOLEAN : MigCall(migration, backward)
    \/ MigStep
    \/ MigRecord
    \/ \E mode \in EnvModes : EnvEnter(mode)
    \/ EnvSelect
    \/ EnvExit

SpecMigrate == InitMigrate /\ [][NextMigrate]_vars

(***************************************************************************)
(* recursive_scandir consumed on its own (files.py): one call, with its   *)
(* path, root and filters, on one of the layouts; a step of the model is  *)
(* a step of the generator, as in update() above.                          *)
(***************************************************************************)
\* paths yielded by one call before the model stops following it (a walk
\* through a circular link that no filter stops does not end)
MaxYielded == 6

\* OSErrors raised by the disk during one call
MaxErrors == 2

\* root=...: <<>> stands for no root given
ScanRoots == {<<>>} \cup Roots

ScanPaths == StartPaths \cup Roots \cup {DotDot, nHid}

\* filters=...
ScanFilters ==
    {<<>>, <<"hidden_name">>, <<"circular_symlink">>,
     <<"circular_symlink", "hidden_name">>, <<"hidden_name", "circular_symlink">>}

\* the root the filters of the call are made with: the root of the walk
FilterRoot(path, root) == IF root = <<>> THEN abspath(path) ELSE root

\* recursive_scandir(path, root=root, filters=filters) up to its first yield
ScanCall(path, root, filters) ==
    /\ scanned.n = 0
    /\ \E started \in {ScanStart(fs.layout, path, root,
                                 InitialKnownRoots(fs.layout, FilterRoot(path, root)))} :
          walk' = started.walk
    /\ scanned' = [NoScan EXCEPT !.path = path, !.root = root, !.filters = filters,
                                 !.n = 1]
    /\ UNCHANGED <<store, sess, scope, last, fs, upd, lookup, mig, flt, vals>>

\* the generator takes the next directory off its stack and scans it
ScanNextDir ==
    /\ scanned.n = 1
    /\ walk.pc = "loop"
    /\ walk.dirstack # <<>>
    /\ Len(walk.yielded) < MaxYielded
    /\ walk' = ScanDir(fs.layout, walk)
    /\ scanned' = [scanned EXCEPT !.entered = Append(@, Last(walk.dirstack))]
    /\ UNCHANGED <<store, sess, scope, last, fs, upd, lookup, mig, flt, vals>>

\* os.scandir raises OSError for the directory taken off the stack
ScanDirFails ==
    /\ scanned.n = 1
    /\ walk.pc = "loop"
    /\ walk.dirstack # <<>>
    /\ Len(walk.yielded) < MaxYielded
    /\ Len(scanned.errors) < MaxErrors
    /\ \E popped \in {[ScanDir(fs.layout, walk) EXCEPT !.todo = {}]} :
          /\ walk' = ScanError(popped)
          /\ scanned' = [scanned EXCEPT !.entered = Append(@, Last(walk.dirstack)),
                                        !.errors = Append(@, popped)]
    /\ UNCHANGED <<store, sess, scope, last, fs, upd, lookup, mig, flt, vals>>

\* the enumeration of the directory raises OSError before its next entry
ScanEntriesFail ==
    /\ scanned.n = 1
    /\ walk.pc = "entries"
    /\ Len(walk.yielded) < MaxYielded
    /\ Len(scanned.errors) < MaxErrors
    /\ walk' = ScanError(walk)
    /\ scanned' = [scanned EXCEPT !.errors = Append(@, walk)]
    /\ UNCHANGED <<store, sess, scope, last, fs, upd, lookup, mig, flt, vals>>

\* the generator looks at one entry of the directory
ScanNextEntry(rawname) ==
    /\ scanned.n = 1
    /\ walk.pc = "entries"
    /\ rawname \in walk.todo
    /\ Len(walk.yielded) < MaxYielded
    /\ \E seen \in {ScanEntry(fs.layout, FilterRoot(scanned.path, scanned.root),
                              scanned.filters, walk, rawname)} :
          walk' = seen.walk
    /\ UNCHANGED <<store, sess, scope, last, fs, upd, lookup, mig, scanned, flt, vals>>

InitScan ==
    /\ store = EmptyDb
    /\ sess = [s \in Sessions |-> NewSession(s, "DEFAULT")]
    /\ scope = [s \in Sessions |-> FALSE]
    /\ last = NoCall
    /\ fs \in [layout : Layouts, root : {<<Ch.sep>> \o nR}]
    /\ walk = NoWalk
    /\ upd = NoUpdate
    /\ lookup = NoLookup
    /\ mig = NoMigration
    /\ scanned = NoScan
    /\ flt = NoFilter
    /\ vals = NoPaths

NextScan ==
    \/ \E path \in ScanPaths, root \in ScanRoots, filters \in ScanFilters :
          ScanCall(path, root, filters)
    \/ ScanNextDir
    \/ \E rawname \in walk.todo : ScanNextEntry(rawname)
    \/ ScanDirFails
    \/ ScanEntriesFail

SpecScan == InitScan /\ [][NextScan]_vars

\* The same walk consumed to its end, as a for loop does: the generator is
\* resumed for as long as it has something to do.  The start paths are those
\* at and below the root.
\* the trees walked to their end: plain, empty, and one whose links form a cycle
LiveLayouts == {LayoutTree, LayoutEmpty, LayoutCycle}

InitScanLive ==
    /\ store = EmptyDb
    /\ sess = [s \in Sessions |-> NewSession(s, "DEFAULT")]
    /\ scope = [s \in Sessions |-> FALSE]
    /\ last = NoCall
    /\ fs \in [layout : LiveLayouts, root : {<<Ch.sep>> \o nR}]
    /\ walk = NoWalk
    /\ upd = NoUpdate
    /\ lookup = NoLookup
    /\ mig = NoMigration
    /\ scanned = NoScan
    /\ flt = NoFilter
    /\ vals = NoPaths

NextScanLive ==
    \/ \E path \in ScanPaths \ {DotDot}, root \in ScanRoots, filters \in ScanFilters :
          ScanCall(path, root, filters)
    \/ ScanNextDir
    \/ \E rawname \in walk.todo : ScanNextEntry(rawname)
    \/ ScanDirFails
    \/ ScanEntriesFail

SpecScanLive ==
    /\ InitScanLive
    /\ [][NextScanLive]_vars
    /\ WF_vars(ScanNextDir \/ ScanDirFails)
    /\ WF_vars((\E rawname \in walk.todo : ScanNextEntry(rawname)) \/ ScanEntriesFail)

(***************************************************************************)
(* recursive_scandir of media/files.py: the same generator with a         *)
(* max_depth argument, tested after each pop of the directory stack.       *)
(***************************************************************************)
\* the largest max_depth handed in
MaxMaxDepth == 2

\* max_depth=...: NULL stands for None, the default
MaxDepths == {NULL} \cup {Some(d) : d \in 0..MaxMaxDepth}

\* "if max_depth and current.depth - start.depth > max_depth": None and 0 are
\* both false
beyond_max_depth(max_depth, current, start) ==
    /\ max_depth # NULL
    /\ max_depth[1] # 0
    /\ current.depth - start.depth > max_depth[1]

\* recursive_scandir(path, root=root, filters=filters, max_depth=max_depth) up to
\* its first yield; start is kept for the test of the depth
DepthCall(path, root, filters, max_depth) ==
    /\ scanned.n = 0
    /\ \E started \in {ScanStart(fs.layout, path, root,
                                 InitialKnownRoots(fs.layout, FilterRoot(path, root)))} :
          /\ walk' = started.walk
          /\ scanned' = [NoScan EXCEPT
                            !.path = path, !.root = root, !.filters = filters, !.n = 1,
                            !.max_depth = max_depth,
                            !.start = IF started.walk.dirstack # <<>>
                                      THEN <<started.walk.dirstack[1]>>
                                      ELSE started.walk.yielded]
    /\ UNCHANGED <<store, sess, scope, last, fs, upd, lookup, mig, flt, vals>>

\* current = dirstack.pop(); a directory beyond max_depth is dropped without a
\* look at its entries, any other is scanned
DepthNextDir ==
    /\ scanned.n = 1
    /\ walk.pc = "loop"
    /\ walk.dirstack # <<>>
    /\ Len(walk.yielded) < MaxYielded
    /\ IF beyond_max_depth(scanned.max_depth, Last(walk.dirstack), scanned.start[1])
       THEN /\ walk' = [walk EXCEPT !.dirstack = Front(@)]
            /\ scanned' = scanned
       ELSE /\ walk' = ScanDir(fs.layout, walk)
            /\ scanned' = [scanned EXCEPT !.entered = Append(@, Last(walk.dirstack))]
    /\ UNCHANGED <<store, sess, scope, last, fs, upd, lookup, mig, flt, vals>>

NextDepth ==
    \/ \E path \in StartPaths \cup Roots, root \in ScanRoots, filters \in ScanFilters,
          max_depth \in MaxDepths :
          DepthCall(path, root, filters, max_depth)
    \/ DepthNextDir
    \/ \E rawname \in walk.todo : ScanNextEntry(rawname)

SpecDepth == InitScan /\ [][NextDepth]_vars

(***************************************************************************)
(* circular_symlink_filter called on its own (files.py): a filter is made *)
(* for a root and handed the entries of that root, in any order and any   *)
(* number of times.                                                        *)
(***************************************************************************)
\* calls made to one filter
MaxCalls == 3

\* os.path.islink
islink(layout, pathstr) ==
    LET node == OsNode(layout, pathstr, FALSE)
    IN node # NoNode /\ node # <<>> /\ layout[node].kind = "link"

\* circular_symlink_filter(root)
FilterMake(root) ==
    /\ ~flt.made
    /\ flt' = [made |-> TRUE, root |-> root,
               known_roots |-> InitialKnownRoots(fs.layout, root), calls |-> <<>>]
    /\ UNCHANGED <<store, sess, scope, last, fs, walk, upd, lookup, mig, scanned, vals>>

\* is_noncircular_symlink(path) for the entry of the root named rawname,
\* is_symlink and is_dir being what the disk says of it
FilterCall(rawname) ==
    /\ flt.made
    /\ Len(flt.calls) < MaxCalls
    /\ \E path \in {PathOf(fsdecode(rawname),
                           isdir(fs.layout, PathJoin(flt.root, fsdecode(rawname))),
                           islink(fs.layout, PathJoin(flt.root, fsdecode(rawname))))} :
          \E r \in {is_noncircular_symlink(fs.layout, flt.root, flt.known_roots, path)} :
             flt' = [flt EXCEPT !.known_roots = r[2],
                                !.calls = Append(@, [path |-> path, accepted |-> r[1]])]
    /\ UNCHANGED <<store, sess, scope, last, fs, walk, upd, lookup, mig, scanned, vals>>

InitFilter ==
    /\ store = EmptyDb
    /\ sess = [s \in Sessions |-> NewSession(s, "DEFAULT")]
    /\ scope = [s \in Sessions |-> FALSE]
    /\ last = NoCall
    /\ fs \in [layout : {LayoutFilter, LayoutLinks}, root : {<<Ch.sep>> \o nR}]
    /\ walk = NoWalk
    /\ upd = NoUpdate
    /\ lookup = NoLookup
    /\ mig = NoMigration
    /\ scanned = NoScan
    /\ flt = NoFilter
    /\ vals = NoPaths

NextFilter ==
    \/ \E root \in {<<Ch.sep>> \o nR, <<Ch.sep>> \o nO} : FilterMake(root)
    \/ \E rawname \in EntryNames(fs.layout, OsNode(fs.layout, flt.root, TRUE)) :
          FilterCall(rawname)

SpecFilter == InitFilter /\ [][NextFilter]_vars

(***************************************************************************)
(* Path values on their own (files.py, class Path): Paths are constructed *)
(* from strings and from bytes and by make_child, and compared.  A value  *)
(* handed to Path or compared with one is [type, v]: a str, bytes, a Path *)
(* or some other object.                                                   *)
(***************************************************************************)
\* Path values held at once
MaxPaths == 3

Str(v) == [type |-> "str", v |-> v]

Bytes(v) == [type |-> "bytes", v |-> v]

Object == [type |-> "object", v |-> <<>>]

\* the spellings handed to Path(...): '', '.', 'a', './a', 'a/b', 'a/b/..',
\* 'a/./b', '..', '../a', '/', '/a', '/a/b', '//', and the bytes b'a',
\* b'./a/', b'/a', b'a/b', b'x\xdc'
Spellings ==
    {Str(<<>>), Str(Dot), Str(nA), Str(<<Ch.dot, Ch.sep, Ch.a>>),
     Str(<<Ch.a, Ch.sep, Ch.b>>), Str(<<Ch.a, Ch.sep, Ch.b, Ch.sep, Ch.dot, Ch.dot>>),
     Str(<<Ch.a, Ch.sep, Ch.dot, Ch.sep, Ch.b>>), Str(DotDot),
     Str(<<Ch.dot, Ch.dot, Ch.sep, Ch.a>>), Str(<<Ch.sep>>), Str(<<Ch.sep, Ch.a>>),
     Str(<<Ch.sep, Ch.a, Ch.sep, Ch.b>>), Str(<<Ch.sep, Ch.sep>>),
     Bytes(nA), Bytes(<<Ch.dot, Ch.sep, Ch.a, Ch.sep>>), Bytes(<<Ch.sep, Ch.a>>),
     Bytes(<<Ch.a, Ch.sep, Ch.b>>), Bytes(nX)}

\* the names handed to make_child: 'a', 'b', the name of the file x\xdc as
\* the OS hands it out, and the names that are no plain component
ChildNames == {nA, nB, fsdecode(nX), <<>>, Dot, DotDot, <<Ch.a, Ch.sep, Ch.b>>}

\* Path(name) without a parent: a name that is bytes is no simple name and
\* is decoded with os.fsdecode before it is joined and normalized
Path(name) ==
    PathOf(IF name.type = "bytes" THEN fsdecode(name.v) ELSE name.v, NULL, NULL)

\* os.fspath(path): Path.__fspath__ is Path.path
fspath(path) == PathStr(path)

\* os.fsencode(path): the bytes of a Path
fsencode_path(path) == fsencode(fspath(path))

\* Path.__hash__: hash(os.fspath(self)); the hash of a string stands for the
\* string, two strings having equal hashes when they are equal
hash(path) == fspath(path)

\* Path.__eq__(self, other): "True", "False" or "NotImplemented"
Path_eq(self, other) ==
    IF other.type = "Path"
    THEN IF self.name = other.v.name /\ self.parent = other.v.parent THEN "True"
         ELSE "False"
    ELSE IF other.type = "str"
    THEN IF fspath(self) = other.v THEN "True" ELSE "False"
    ELSE IF other.type = "bytes"
    THEN "False"   \* a str never equals bytes
    ELSE "NotImplemented"

\* self == other as the interpreter decides it: when __eq__ returns
\* NotImplemented and the other side knows no better, the two are compared
\* by identity
Equal(self, other) == Path_eq(self, other) = "True"

\* Path(name)
PathNew(name) ==
    /\ Len(vals) < MaxPaths
    /\ vals' = Append(vals, [how |-> "Path", arg |-> name, of |-> 0, path |-> Path(name)])
    /\ UNCHANGED <<store, sess, scope, last, fs, walk, upd, lookup, mig, scanned, flt>>

\* vals[i].path.make_child(name)
PathMakeChild(i, name) ==
    /\ Len(vals) < MaxPaths
    /\ i \in 1..Len(vals)
    /\ vals' = Append(vals, [how |-> "make_child", arg |-> Str(name), of |-> i,
                             path |-> make_child(vals[i].path, name, NULL, NULL)])
    /\ UNCHANGED <<store, sess, scope, last, fs, walk, upd, lookup, mig, scanned, flt>>

InitPath ==
    /\ store = EmptyDb
    /\ sess = [s \in Sessions |-> NewSession(s, "DEFAULT")]
    /\ scope = [s \in Sessions |-> FALSE]
    /\ last = NoCall
    /\ fs \in [layout : {LayoutEmpty}, root : {<<Ch.sep>> \o nR}]
    /\ walk = NoWalk
    /\ upd = NoUpdate
    /\ lookup = NoLookup
    /\ mig = NoMigration
    /\ scanned = NoScan
    /\ flt = NoFilter
    /\ vals = NoPaths

NextPath ==
    \/ \E name \in Spellings : PathNew(name)
    \/ \E i \in 1..Len(vals), name \in ChildNames : PathMakeChild(i, name)

SpecPath == InitPath /\ [][NextPath]_vars

(***************************************************************************)
(* Properties.                                                             *)
(***************************************************************************)
\* a step in which the with block of session s is left while its connection
\* is in a transaction
LeavesInTransaction(s) ==
    /\ scope[s] /\ ~scope'[s]
    /\ last'.op = "exit" /\ last'.s = s
    /\ sess[s].conn /\ sess[s].intx

\* COMMIT can take the lock it needs
CommitCanLock(s) == sess[s].lock \in {"none", "shared"} \/ CanExclude(sess, s)

\* C1: when a session scope is left while its connection is in a
\* transaction, the pending changes become the committed database if no
\* exception is propagating and are dropped if one is; either way the
\* session holds no connection afterwards.
C1_ExitCommitsOrRollsBack ==
    [][\A s \in Sessions :
          LeavesInTransaction(s) =>
             /\ store' = (IF last'.exc THEN store ELSE View(sess, store, s))
             /\ ~sess'[s].conn]_vars

\* C1, amended: an exception propagating, the pending changes are rolled
\* back; none propagating, they are committed if the commit can take its
\* lock (no other connection holds a lock on the database, or the
\* transaction has only read), and otherwise __exit__ raises "database is
\* locked" and the pending changes are dropped.  In every case the
\* connection is closed and the session holds none afterwards.
C1_ExitCommitsUnlessLocked ==
    [][\A s \in Sessions :
          LeavesInTransaction(s) =>
             /\ IF last'.exc
                THEN store' = store /\ last'.res = "ok"
                ELSE IF CommitCanLock(s)
                THEN store' = View(sess, store, s) /\ last'.res = "ok"
                ELSE store' = store /\ last'.res = "Busy"
             /\ ~sess'[s].conn
             /\ sess'[s].lock = "none" /\ ~sess'[s].intx]_vars

\* C1 happens: a scope was left in a transaction that had written, without
\* an exception, and the row is committed
C1_Witness ==
    /\ last.op = "exit" /\ last.intx /\ last.dirty /\ ~last.exc /\ last.res = "ok"
    /\ store.paths # {}
    /\ ~sess[last.s].conn

\* the ancestors rows of the paths row with this id (their places in the table)
Closure(db, id) == {i \in 1..Len(db.anc) : db.anc[i].child_id = id}

\* C2: in the committed database every paths row R has exactly one
\* ancestors row (R.id, R.id, 0), and among the ancestors rows of R
\* reldepth = 0 exactly where child_id = ancestor_id.
C2_OwnRowExactlyOnce ==
    \A R \in store.paths :
       /\ Cardinality({i \in Closure(store, R.id) :
                          /\ store.anc[i].ancestor_id = R.id
                          /\ store.anc[i].reldepth = 0}) = 1
       /\ \A i \in Closure(store, R.id) :
             store.anc[i].reldepth = 0 <=> store.anc[i].ancestor_id = R.id

\* C2 happens: a committed row with a parent, whose closure holds more than
\* its own row
C2_Witness ==
    \E R \in store.paths : R.parent_id # NULL /\ Cardinality(Closure(store, R.id)) > 1

\* C3: in the committed database, for every paths row R with parent P and
\* every ancestors row (P, A, d) there is the ancestors row (R.id, A, d - 1).
C3_ClosureOfParentShifted ==
    \A R \in store.paths :
       R.parent_id # NULL =>
          \A i \in Closure(store, R.parent_id[1]) :
             \E j \in Closure(store, R.id) :
                /\ store.anc[j].ancestor_id = store.anc[i].ancestor_id
                /\ store.anc[j].reldepth = store.anc[i].reldepth - 1

\* C3 happens: a committed row whose parent has a parent of its own
C3_Witness ==
    \E R \in store.paths, P \in store.paths :
       R.parent_id = Some(P.id) /\ P.parent_id # NULL

\* C4: every committed paths row of depth d written by an update pass has
\* exactly d ancestors rows.
C4_ClosureCountIsDepth ==
    \A R \in store.paths : Cardinality(Closure(store, R.id)) = R.depth

\* the row at the top of the chain of parents of R: the ancestor of the
\* ancestors row of R with the least reldepth
TopAncestor(db, R) ==
    LET top == CHOOSE i \in Closure(db, R.id) :
                  \A j \in Closure(db, R.id) : db.anc[i].reldepth <= db.anc[j].reldepth
    IN CHOOSE P \in db.paths : P.id = db.anc[top].ancestor_id

\* C5: in the committed database every paths row's depth is the count of
\* its ancestors rows minus one.
C5_DepthIsCountMinusOne ==
    \A R \in store.paths : R.depth = Cardinality(Closure(store, R.id)) - 1

\* C5, amended: every paths row's depth is the count of its ancestors rows
\* plus the depth of the row at the top of its chain of parents minus one;
\* so it is the count itself wherever that top row has depth 1.
C5_DepthIsCountFromTop ==
    \A R \in store.paths :
       /\ Closure(store, R.id) # {}
       /\ R.depth = Cardinality(Closure(store, R.id)) + TopAncestor(store, R).depth - 1

\* C5 happens: a committed row of depth 3 under a top row of depth 1, and a
\* row of depth 1 without parent
C5_Witness ==
    /\ \E R \in store.paths : R.depth = 3 /\ TopAncestor(store, R).depth = 1
    /\ \E R \in store.paths : R.depth = 1 /\ R.parent_id = NULL

\* C6: in an update pass, a path whose parent is not the empty root path is
\* inserted only after the row of its parent path was inserted in the same
\* pass, and with that row's id as its parent_id.
C6_ParentInsertedBefore ==
    \A i \in 1..Len(upd.inserted) :
       upd.inserted[i].parent # <<>> =>
          \E j \in 1..(i - 1) :
             /\ upd.inserted[j].path = upd.inserted[i].parent
             /\ upd.inserted[i].params.parent_id = Some(upd.inserted[j].id)

\* C7: no two committed paths rows have the same name and the same
\* parent_id, two NULL parent_ids counting as the same.
C7_NameUniqueUnderParent ==
    \A R1 \in store.paths, R2 \in store.paths :
       (R1.name = R2.name /\ R1.parent_id = R2.parent_id) => R1.id = R2.id

\* the database after the first m inserts of a pass on top of db
RECURSIVE Replay(_, _, _)
Replay(db, inserted, m) ==
    IF m = 0 THEN db
    ELSE InsertPath(Replay(db, inserted, m - 1), inserted[m].params).db

\* update() has ended with an exception, having been called with a
\* commit_every that makes it commit
Interrupted == upd.pc = "idle" /\ upd.res \notin {"none", "ok"} /\ upd.commit_every > 0

\* C8: after an update pass with commit_every = N was interrupted by an
\* error after k successful inserts, the store holds exactly the rows of
\* the first N * floor(k / N) inserts, with their closure rows.
C8_PrefixOfFullBatches ==
    Interrupted =>
       store = Replay(upd.base, upd.inserted,
                      upd.commit_every * (Len(upd.inserted) \div upd.commit_every))

\* C8, amended: the store holds exactly the rows of the inserts up to the
\* last commit that succeeded, with their closure rows, and none of the
\* later ones.  These are the first N * floor(k / N) inserts when the error
\* was raised by the walker, by an insert or on leaving the session, and the
\* first k - N when it was raised by the commit after the k-th insert.
C8_PrefixOfCommittedBatches ==
    Interrupted =>
       /\ store = Replay(upd.base, upd.inserted, upd.committed)
       /\ upd.committed =
             IF upd.at = "commit" THEN Len(upd.inserted) - upd.commit_every
             ELSE upd.commit_every * (Len(upd.inserted) \div upd.commit_every)

\* C8 happens: a pass was interrupted with a committed batch behind it and
\* an insert after that batch
C8_Witness ==
    Interrupted /\ upd.committed > 0 /\ Len(upd.inserted) > upd.committed

\* the last pass ran to its end on an empty store and inserted the file q
InsertedFile(q) ==
    /\ upd.pc = "idle" /\ upd.res = "ok" /\ upd.base = EmptyDb
    /\ \E i \in 1..Len(upd.inserted) :
          upd.inserted[i].path = q /\ ~upd.inserted[i].params.is_dir

\* C9: after update() on an empty store, IdentifyPathView of the path of a
\* file the pass inserted, relative to the root, returns exactly one row,
\* whose path is the raw bytes of that relative path.
C9_FileIdentified ==
    (lookup.asked /\ InsertedFile(lookup.q)) =>
       /\ Len(lookup.rows) = 1
       /\ lookup.rows[1].path = Some(fsencode(lookup.q))

\* the rows matching the first n names, each at its depth and under a row
\* matching the names before it
RECURSIVE Matching(_, _, _)
Matching(db, names, n) ==
    IF n = 1
    THEN {R \in db.paths : R.name = names[1] /\ R.depth = 1 /\ R.parent_id = NULL}
    ELSE {R \in db.paths :
             /\ R.name = names[n] /\ R.depth = n
             /\ \E P \in Matching(db, names, n - 1) : R.parent_id = Some(P.id)}

\* C10: IdentifyPathView returns a row only when every component of the
\* input matched an entry at the right depth under the right parent; for a
\* wrong last component, an unknown name, the empty string or separators
\* only it returns no row.
C10_RowOnlyWhenMatched ==
    lookup.asked =>
       (lookup.rows # <<>> =>
           Matching(store, QueryNames(lookup.q), Len(QueryNames(lookup.q))) # {})

\* the names of the row R and the rows above it along parent_id, topmost first
RECURSIVE ChainNames(_, _)
ChainNames(db, R) ==
    IF R.parent_id = NULL \/ ~\E P \in db.paths : Some(P.id) = R.parent_id
    THEN <<R.name>>
    ELSE Append(ChainNames(db, CHOOSE P \in db.paths : Some(P.id) = R.parent_id),
                R.name)

\* the record of the paths row R as the query contract describes it
ByIdRecord(db, R) ==
    [id |-> R.id, name |-> R.name, is_dir |-> R.is_dir,
     path |-> PathJoinAll(<<>>, ChainNames(db, R))]

\* the paths rows a list of ids asks for
Requested(db, ids) == {R \in db.paths : \E i \in 1..Len(ids) : ids[i] = R.id}

\* C11: PathByIdView returns exactly one record per requested id that has
\* a row in paths and none for an unknown id; the record's path is the
\* names of the entry's chain joined topmost first, and its id, name and
\* is_dir are those of the requested entry itself.
C11_OneRecordPerKnownId ==
    lookup.by_id =>
       /\ Len(lookup.rows) = Cardinality(Requested(store, lookup.ids))
       /\ {lookup.rows[i] : i \in 1..Len(lookup.rows)}
             = {ByIdRecord(store, R) : R \in Requested(store, lookup.ids)}

\* C12: __enter__ on a session that holds a connection raises SessionError
\* and changes nothing: the connection stays open, its transaction and
\* pending changes stay as they were, the store is not written, and the
\* session can still execute.
C12_NestedEnterRejected ==
    [][\A s \in Sessions :
          (last'.op = "enter" /\ last'.s = s /\ sess[s].conn) =>
             /\ last'.res = "SessionError"
             /\ sess[s].owner = last'.t => last'.why = "nested"
             /\ sess' = sess /\ store' = store /\ scope' = scope
             /\ SessionExecute(sess', store', sess[s].owner, s, "SELECT", RootRow).res
                   # "SessionError"]_vars

\* C12 happens: the owning thread entered a session again whose connection
\* is in a transaction with a pending row, and the row is still pending
C12_Witness ==
    /\ last.op = "enter" /\ last.res = "SessionError" /\ last.why = "nested"
    /\ sess[last.s].conn /\ sess[last.s].intx /\ sess[last.s].dirty
    /\ sess[last.s].work.paths # {} /\ store.paths = {}

\* C13: a session is entered only by the thread that owns its connection
\* slot, and every call on it (enter, execute, commit, close, exit) by
\* another thread raises SessionError and changes nothing: no connection is
\* opened, and the connection and transaction of the owning thread stay as
\* they were.
C13_ForeignThreadRejected ==
    [][\A s \in Sessions :
          last'.s = s =>
             /\ (last'.op = "enter" /\ last'.res = "ok") => last'.t = sess[s].owner
             /\ last'.t # sess[s].owner =>
                   /\ last'.res = "SessionError" /\ last'.why = "thread"
                   /\ sess' = sess /\ store' = store /\ scope' = scope]_vars

\* C13 happens: a thread that does not own the session called commit on it
\* while the owner's connection was in a transaction with a pending row
C13_Witness ==
    /\ last.op = "commit" /\ last.t # sess[last.s].owner
    /\ last.res = "SessionError" /\ last.why = "thread"
    /\ sess[last.s].conn /\ sess[last.s].intx /\ sess[last.s].dirty

\* C14: a session holds no connection before it is entered and after its
\* thread has left or closed it; on a session without a connection,
\* execute and commit by its thread raise SessionError, open no connection
\* and leave the store alone, while close returns and changes nothing.
C14_OutsideScopeRejected ==
    [][\A s \in Sessions :
          (last'.s = s /\ last'.t = sess[s].owner) =>
             /\ last'.op \in {"exit", "close"} => ~sess'[s].conn
             /\ (~sess[s].conn /\ last'.op \in {"SELECT", "INSERT", "commit"}) =>
                   /\ last'.res = "SessionError" /\ last'.why = "outside"
                   /\ sess' = sess /\ store' = store
             /\ (~sess[s].conn /\ last'.op = "close") =>
                   /\ last'.res = "ok"
                   /\ sess' = sess /\ store' = store]_vars

\* C14 happens: after a row was committed and the scope left, the owning
\* thread called execute on the session, which holds no connection
C14_Witness ==
    /\ last.op = "INSERT" /\ last.t = sess[last.s].owner
    /\ last.res = "SessionError" /\ last.why = "outside"
    /\ ~sess[last.s].conn /\ ~scope[last.s]
    /\ store.paths # {}

\* C15: when __enter__ returns on a session in DEFERRED, IMMEDIATE or
\* EXCLUSIVE mode its connection is in a transaction, holding the reserved
\* lock for IMMEDIATE and the exclusive lock for EXCLUSIVE (none yet for
\* DEFERRED); in DEFAULT or AUTOCOMMIT mode no BEGIN was issued: the
\* connection is in no transaction and holds no lock.
C15_BeginAtEntry ==
    [][\A s \in Sessions :
          (last'.op = "enter" /\ last'.s = s /\ last'.res = "ok") =>
             /\ sess'[s].conn
             /\ sess[s].isolation \in {"DEFERRED", "IMMEDIATE", "EXCLUSIVE"}
                   => sess'[s].intx
             /\ sess[s].isolation = "DEFERRED" => sess'[s].lock = "none"
             /\ sess[s].isolation = "IMMEDIATE" => sess'[s].lock = "reserved"
             /\ sess[s].isolation = "EXCLUSIVE" => sess'[s].lock = "exclusive"
             /\ sess[s].isolation \in {"DEFAULT", "AUTOCOMMIT"}
                   => ~sess'[s].intx /\ sess'[s].lock = "none"]_vars

\* C15 happens: a session in IMMEDIATE mode was entered and holds the
\* reserved lock, while the other session is inside its scope too
C15_Witness ==
    /\ last.op = "enter" /\ last.res = "ok"
    /\ sess[last.s].isolation = "IMMEDIATE"
    /\ sess[last.s].intx /\ sess[last.s].lock = "reserved"
    /\ \E o \in Sessions \ {last.s} : scope[o] /\ sess[o].conn

\* another session holds the exclusive lock
OtherExcludes(s) == \E h \in Sessions \ {s} : sess[h].lock = "exclusive"

\* C16: while another session holds the exclusive lock, every statement a
\* session executes on its connection, SELECT or INSERT, raises Busy, and
\* so does entering a session in IMMEDIATE or EXCLUSIVE mode; the store is
\* not changed and no scope is entered.
C16_ExclusiveShutsOut ==
    [][\A s \in Sessions :
          (last'.s = s /\ last'.t = sess[s].owner /\ OtherExcludes(s)) =>
             /\ (last'.op \in {"SELECT", "INSERT"} /\ sess[s].conn) =>
                   last'.res = "Busy" /\ store' = store
             /\ (last'.op = "enter" /\ ~sess[s].conn
                    /\ sess[s].isolation \in {"IMMEDIATE", "EXCLUSIVE"}) =>
                   last'.res = "Busy" /\ store' = store /\ scope' = scope]_vars

\* C16 happens: a SELECT raised Busy while a session in EXCLUSIVE mode held
\* the exclusive lock
C16_Witness ==
    /\ last.op = "SELECT" /\ last.res = "Busy"
    /\ \E h \in Sessions \ {last.s} :
          sess[h].isolation = "EXCLUSIVE" /\ sess[h].lock = "exclusive" /\ scope[h]

\* C17: while control is inside the scope of a session in EXCLUSIVE mode
\* and the session holds its connection, the connection holds the
\* exclusive lock, so that no other session can take the lock a read or a
\* write needs; this also after a commit() inside the scope.
C17_ExclusiveForDuration ==
    \A s \in Sessions :
       (scope[s] /\ sess[s].conn /\ sess[s].isolation = "EXCLUSIVE") =>
          /\ sess[s].lock = "exclusive"
          /\ \A o \in Sessions \ {s} : ~CanShare(sess, o) /\ ~CanReserve(sess, o)

\* what C18 says of a step while session h is in a transaction of IMMEDIATE
\* mode: a SELECT of another session succeeds and reads the committed
\* store, an INSERT of another session raises Busy, and a row h inserts
\* reaches the store only when h commits
WhileImmediate(h) ==
    /\ \A o \in Sessions \ {h} :
          (last'.s = o /\ last'.t = sess[o].owner /\ sess[o].conn) =>
             /\ last'.op = "SELECT" =>
                   last'.res = "ok" /\ View(sess', store', o) = store
             /\ last'.op = "INSERT" => last'.res = "Busy" /\ store' = store
    /\ (last'.s = h /\ last'.op \in {"SELECT", "INSERT"}) => store' = store
    /\ (last'.s = h /\ last'.op = "commit" /\ last'.res = "ok")
          => store' = View(sess, store, h)

\* C18: while a session is in a transaction of IMMEDIATE mode, other
\* sessions can read the store, a write by another session raises Busy,
\* and the holder's pending rows are not in what the others read until the
\* holder commits.
C18_ImmediateReadersOnly ==
    [][\A h \in Sessions :
          (sess[h].conn /\ sess[h].intx /\ sess[h].isolation = "IMMEDIATE")
             => WhileImmediate(h)]_vars

\* C18, amended: the same while the holder's transaction holds the reserved
\* lock.  Once a commit of the holder has failed because a reader held its
\* shared lock, the holder keeps the pending lock and the reads of sessions
\* that hold no lock raise Busy as well.
C18_ReservedReadersOnly ==
    [][\A h \in Sessions :
          (sess[h].conn /\ sess[h].intx /\ sess[h].isolation = "IMMEDIATE") =>
             /\ sess[h].lock \in {"reserved", "pending"}
             /\ sess[h].lock = "reserved" => WhileImmediate(h)
             /\ \A o \in Sessions \ {h} :
                   (/\ sess[h].lock = "pending" /\ sess[o].lock = "none"
                    /\ last'.s = o /\ last'.t = sess[o].owner /\ sess[o].conn
                    /\ last'.op \in {"SELECT", "INSERT"})
                      => last'.res = "Busy" /\ store' = store]_vars

\* C18 happens: a session read the store while another, in IMMEDIATE mode,
\* held the reserved lock and a row not yet committed
C18_Witness ==
    /\ last.op = "SELECT" /\ last.res = "ok"
    /\ \E h \in Sessions \ {last.s} :
          /\ sess[h].isolation = "IMMEDIATE" /\ sess[h].lock = "reserved"
          /\ sess[h].dirty /\ sess[h].work.paths # store.paths

\* C19: a session in AUTOCOMMIT mode is never in a transaction; an INSERT
\* it executes is in the committed store when execute returns, where every
\* other session reads it, and leaving the scope, with an exception or
\* without, or closing the session takes nothing back.
C19_AutocommitAtOnce ==
    [][\A s \in Sessions :
          (last'.s = s /\ sess[s].isolation = "AUTOCOMMIT") =>
             /\ ~sess'[s].intx /\ ~sess'[s].dirty
             /\ (last'.op = "INSERT" /\ last'.res = "ok") =>
                   /\ store' = InsertPath(store, RootRow).db
                   /\ \A o \in Sessions \ {s} : View(sess', store', o) = store'
             /\ last'.op \in {"exit", "close"} => store' = store]_vars

\* C19 happens: inside its scope a session in AUTOCOMMIT mode executed an
\* INSERT, and the row is in the store while the connection holds nothing
\* pending
C19_Witness ==
    /\ last.op = "INSERT" /\ last.res = "ok"
    /\ sess[last.s].isolation = "AUTOCOMMIT"
    /\ scope[last.s] /\ sess[last.s].conn /\ ~sess[last.s].intx
    /\ store.paths # {}

\* C20: close() by the owning thread inside the scope returns, leaves the
\* store as it was, so that what the connection had pending is gone, and
\* the session holds no connection, transaction or lock; from then on
\* execute and commit raise SessionError and change nothing, and leaving
\* the scope raises nothing and leaves the store as it is.
C20_CloseDiscards ==
    [][\A s \in Sessions :
          (last'.s = s /\ last'.t = sess[s].owner /\ scope[s]) =>
             /\ (last'.op = "close" /\ sess[s].conn) =>
                   /\ last'.res = "ok" /\ store' = store
                   /\ sess'[s] = NoConnection @@ sess[s]
             /\ (~sess[s].conn /\ last'.op \in {"SELECT", "INSERT", "commit"}) =>
                   /\ last'.res = "SessionError"
                   /\ sess' = sess /\ store' = store
             /\ (~sess[s].conn /\ last'.op = "exit") =>
                   /\ last'.res = "ok" /\ ~scope'[s]
                   /\ sess' = sess /\ store' = store]_vars

\* C20 happens: inside its scope a session was closed while a row was
\* pending, and the row is in neither the store nor the session
C20_Witness ==
    /\ last.op = "close" /\ last.res = "ok" /\ last.intx /\ last.dirty
    /\ scope[last.s] /\ ~sess[last.s].conn
    /\ sess[last.s].work = EmptyDb /\ store.paths = {}

\* C21: when a step of a migration raises, the transaction of the call is
\* rolled back: the ledger has no row for that application, and the schema
\* and the tables are what they were when the call was made, whatever the
\* steps before the failing one had done
C21_FailedMigrationRolledBack ==
    (mig.pc = "idle" /\ mig.res \notin {"none", "ok"}) =>
        /\ store.versions = mig.base.versions
        /\ store.schema = mig.base.schema
        /\ store = mig.base
        /\ ~sess[MigSession].conn

\* C21 happens: a forward migration has failed after steps of it had run
C21_Witness ==
    /\ mig.pc = "idle"
    /\ mig.res = "OperationalError"
    /\ mig.done > 0
    /\ ~mig.backward

\* the database after the statements have run on it one after the other
RECURSIVE RunAll(_, _)
RunAll(db, statements) ==
    IF statements = <<>> THEN db
    ELSE RunAll(Run(db, statements[1]).db, Tail(statements))

\* the steps of the call that is running, in the order the migration gives
StepsOfCall ==
    IF mig.backward THEN mig.migration[1].backward_steps
    ELSE mig.migration[1].forward_steps

\* C22: a successful application runs every step of the chosen direction in
\* order inside one EXCLUSIVE transaction (nothing reaches the store before
\* the end), then the store gets the effects of all the steps together with
\* exactly one new ledger row that carries the migration's name, comment and
\* direction; the ledger rows written before stay as they are
C22_StepsAndLedgerTogether ==
    [][/\ Len(store'.versions) >= Len(store.versions)
       /\ SubSeq(store'.versions, 1, Len(store.versions)) = store.versions
       /\ mig.pc = "steps" =>
             /\ sess[MigSession].intx /\ sess[MigSession].lock = "exclusive"
             /\ store = mig.base
       /\ (mig.pc = "steps" /\ mig'.pc = "steps" /\ mig'.done # mig.done) =>
             /\ mig'.done = mig.done + 1
             /\ sess'[MigSession].work =
                   Run(sess[MigSession].work, StepsOfCall[mig.done + 1]).db
             /\ store' = store
       /\ (mig.pc = "steps" /\ mig'.pc = "idle" /\ mig'.res = "ok") =>
             /\ mig.done = Len(StepsOfCall)
             /\ Len(store'.versions) = Len(store.versions) + 1
             /\ [store' EXCEPT !.versions = <<>>] =
                   [RunAll(Run(mig.base, CreateVersions).db, StepsOfCall)
                       EXCEPT !.versions = <<>>]
             /\ Last(store'.versions).name = mig.migration[1].name
             /\ Last(store'.versions).comment = mig.migration[1].comment
             /\ Last(store'.versions).direction =
                   IF mig.backward THEN "BACKWARD" ELSE "FORWARD"]_vars

\* C22 happens: a backward application of two steps has succeeded on a store
\* whose ledger held a row already, and has changed the schema
C22_Witness ==
    /\ mig.pc = "idle" /\ mig.res = "ok"
    /\ mig.backward /\ mig.done = 2
    /\ Len(store.versions) >= 2
    /\ store.schema # mig.base.schema

\* what a migration can leave in the schema: everything but the ledger table
\* and the tables sqlite keeps for itself
UserObjects(schema) == {o \in schema : o.name \notin {"_versions", "sqlite_sequence"}}

RECURSIVE Directions(_)
Directions(versions) ==
    IF versions = <<>> THEN <<>>
    ELSE <<versions[1].direction>> \o Directions(Tail(versions))

\* C23: the initial migration applied forward and then backward to an empty
\* store leaves no paths, no ancestors, no index and no trigger, and the
\* ledger holds exactly two rows, FORWARD then BACKWARD
C23_ForwardBackwardIsNoOp ==
    (/\ mig.pc = "idle"
     /\ mig.applied = << <<Migration0001.name, FALSE>>, <<Migration0001.name, TRUE>> >>) =>
        /\ UserObjects(store.schema) = UserObjects(EmptyFile.schema)
        /\ store.paths = {} /\ store.anc = <<>>
        /\ Directions(store.versions) = <<"FORWARD", "BACKWARD">>

\* C23 happens: forward, then backward, with the four objects there in
\* between
C23_Witness ==
    /\ mig.pc = "idle" /\ mig.res = "ok" /\ mig.n = 2
    /\ mig.applied = << <<Migration0001.name, FALSE>>, <<Migration0001.name, TRUE>> >>
    /\ Names(UserObjects(mig.base.schema)) =
          {"paths", "ancestors", "ancestors_child_depth_ancestor",
           "paths_after_insert_create_ancestors"}

\* the start path of the call as recursive_scandir joins it, and its form
\* relative to the root of the walk
Startpath ==
    PathJoin(walk.root,
             IF scanned.root = <<>> THEN abspath(scanned.path) ELSE scanned.path)

StartStr == relpath(Startpath, walk.root)

\* C24: scan of a start path that is not a directory yields exactly that one
\* path and stops if the path exists, and fails with FileNotFoundError
\* without yielding anything if it does not
C24_NonDirectoryStart ==
    (scanned.n = 1 /\ ~isdir(fs.layout, Startpath)) =>
        IF OsNode(fs.layout, Startpath, TRUE) # NoNode
        THEN /\ walk.pc = "done"
             /\ Exhausted(walk)
             /\ Len(walk.yielded) = 1
             /\ PathStr(walk.yielded[1]) = StartStr
             /\ ~walk.yielded[1].is_dir
        ELSE /\ walk.pc = "raised"
             /\ walk.yielded = <<>>

\* C24 happens: a file below the root was the start path of a call
C24_Witness ==
    /\ scanned.n = 1
    /\ scanned.root # <<>>
    /\ walk.pc = "done"
    /\ Len(walk.yielded) = 1
    /\ PathDepth(PathStr(walk.yielded[1])) > 1

\* the paths of the sequence that lie below the start: all but the start
\* path itself, which comes first when it is yielded
BelowStart == IF isdir(fs.layout, Startpath) /\ StartStr # Dot THEN 2 ELSE 1

\* C25: when the start path is a directory, scan yields the start path
\* itself, as the first element and only there, iff it differs from the root
\* ('.'); when start is the root only entries below it are yielded; and
\* every yielded path is relative to root: not absolute, and joined to root
\* it names something on disk
C25_StartYieldedUnlessRoot ==
    (scanned.n = 1 /\ isdir(fs.layout, Startpath)) =>
        /\ StartStr # Dot =>
              /\ walk.yielded # <<>>
              /\ PathStr(walk.yielded[1]) = StartStr
        /\ \A i \in BelowStart..Len(walk.yielded) :
              /\ PathStr(walk.yielded[i]) # StartStr
              /\ PathStr(walk.yielded[i]) # Dot
              /\ StartStr = Dot =>
                    /\ walk.yielded[i].name \notin {Dot, DotDot, <<>>}
                    /\ ~StartsWith(PathStr(walk.yielded[i]), DotDot)
              /\ StartStr # Dot =>
                    StartsWith(PathStr(walk.yielded[i]), StartStr \o <<Ch.sep>>)
        /\ \A i \in 1..Len(walk.yielded) :
              /\ PathStr(walk.yielded[i])[1] # Ch.sep
              /\ OsNode(fs.layout, normpath(PathJoin(walk.root, PathStr(walk.yielded[i]))),
                        FALSE) # NoNode

\* C25 happens: a walk from a directory below the root has yielded the start
\* path and entries below it
C25_Witness ==
    /\ scanned.n = 1
    /\ isdir(fs.layout, Startpath)
    /\ StartStr # Dot
    /\ Len(walk.yielded) >= 3
    /\ Exhausted(walk)

\* the parent of the entries of a directory: the directory's joined form,
\* the empty string for the directory '.'
ParentOfEntries(dir) == IF dir.name = Dot THEN dir.parent ELSE PathStr(dir)

\* in the sequence Y, every path from index from on comes after its parent
\* directory (top being the parent of the entries of the start directory),
\* and once a child of a directory has come, none of that directory's
\* siblings comes any more
ParentsFirst(Y, from, top) ==
    /\ \A i \in from..Len(Y) :
          \/ from = 1 /\ Y[i].parent = top
          \/ \E j \in 1..(i - 1) : Y[j].is_dir /\ Y[i].parent = ParentOfEntries(Y[j])
    /\ \A i, j, k \in 1..Len(Y) :
          (i < j /\ j < k /\ Y[j].parent = ParentOfEntries(Y[i]) /\ i >= from) =>
              Y[k].parent # Y[i].parent

\* C26: in the sequence produced by scan, every path below the start
\* directory comes strictly after its parent directory (or after the start
\* of the walk, when the parent is the root); a child is yielded in the step
\* that enumerates its directory; all children of one directory come before
\* any of their own children; and in a tree without symlinks no path comes
\* twice
C26_ParentBeforeChild ==
    [][(scanned.n = 1 /\ walk'.yielded # walk.yielded) =>
          /\ walk.pc = "entries"
          /\ walk'.yielded = Append(walk.yielded, Last(walk'.yielded))
          /\ walk'.current = walk.current
          /\ Last(walk'.yielded).parent = ParentOfEntries(walk.current[1])
          /\ \A from \in {BelowStart}, top \in {ParentOfEntries(PathOf(StartStr, TRUE, NULL))} :
                ParentsFirst(walk'.yielded, from, top)
          /\ fs.layout \in {LayoutTree, LayoutEmpty} =>
                \A i, j \in 1..Len(walk'.yielded) :
                    PathStr(walk'.yielded[i]) = PathStr(walk'.yielded[j]) => i = j]_vars

\* C26 happens: a walk of the tree a/, a/b/, a/b/f, x has ended, having
\* yielded a directory, its sibling, and the children two levels down
C26_Witness ==
    /\ scanned.n = 1
    /\ fs.layout = LayoutTree
    /\ Exhausted(walk)
    /\ Len(walk.yielded) >= 4
    /\ PathDepth(PathStr(Last(walk.yielded))) - PathDepth(PathStr(walk.yielded[1])) >= 2

\* what the filter named f answers for the child, asked at this moment
Accepts(f, child) ==
    IF f = "hidden_name" THEN child.name[1] # Ch.dot
    ELSE is_noncircular_symlink(fs.layout, FilterRoot(scanned.path, scanned.root),
                                walk.known_roots, child)[1]

\* the Path the walker makes of the entry rawname of the directory it scans
ChildOf(rawname) ==
    make_child(walk.current[1], fsdecode(rawname),
               EntryIsDir(fs.layout, walk.node, rawname),
               EntryIsSymlink(fs.layout, walk.node, rawname))

\* C27: an entry is yielded only if every filter of the chain accepts it; an
\* entry that some filter rejects is not yielded and, if it is a directory,
\* not pushed, so that every directory the walker holds or scans is the
\* start or a path it has yielded, and nothing below a rejected directory
\* is ever yielded
C27_OnlyAcceptedYielded ==
    [][(/\ scanned.n = 1 /\ walk.pc = "entries" /\ walk'.todo # walk.todo
        /\ scanned'.errors = scanned.errors) =>
          \A child \in {ChildOf(rawname) : rawname \in walk.todo \ walk'.todo} :
             /\ IF \A k \in 1..Len(scanned.filters) : Accepts(scanned.filters[k], child)
                THEN /\ walk'.yielded = Append(walk.yielded, child)
                     /\ walk'.dirstack = IF child.is_dir THEN Append(walk.dirstack, child)
                                         ELSE walk.dirstack
                ELSE /\ walk'.yielded = walk.yielded
                     /\ walk'.dirstack = walk.dirstack
             /\ \A i \in 1..Len(walk'.dirstack) :
                   \/ PathStr(walk'.dirstack[i]) = StartStr
                   \/ \E j \in 1..Len(walk'.yielded) :
                         walk'.yielded[j] = walk'.dirstack[i]
             /\ \/ PathStr(walk.current[1]) = StartStr
                \/ \E j \in 1..Len(walk.yielded) : walk.yielded[j] = walk.current[1]
             /\ (\E k \in 1..Len(scanned.filters) : scanned.filters[k] = "hidden_name") =>
                   \A i \in BelowStart..Len(walk'.yielded) :
                      walk'.yielded[i].name[1] # Ch.dot]_vars

\* C27 happens: with both filters in the chain the walk of the layout with
\* the hidden directory and the links has ended, having rejected entries and
\* yielded others
C27_Witness ==
    /\ scanned.n = 1
    /\ Len(scanned.filters) = 2
    /\ fs.layout = LayoutLinks
    /\ PathStr(PathOf(StartStr, TRUE, NULL)) = Dot
    /\ walk.root = <<Ch.sep>> \o nR
    /\ Exhausted(walk)
    /\ Len(walk.yielded) = 2

\* a walk of the root /r of the layout with the link k -> /r, the
\* symlink-cycle filter being in the chain
WalksRootWithBack ==
    /\ scanned.n = 1
    /\ fs.layout = LayoutLinks
    /\ walk.root = <<Ch.sep>> \o nR
    /\ StartStr = Dot
    /\ \E k \in 1..Len(scanned.filters) : scanned.filters[k] = "circular_symlink"

\* the walker has never enumerated the link k nor yielded anything below it
BackNotEntered ==
    /\ walk.current # <<>> => PathStr(walk.current[1]) # fsdecode(nBack)
    /\ \A i \in 1..Len(walk.dirstack) : PathStr(walk.dirstack[i]) # fsdecode(nBack)
    /\ \A i \in 1..Len(walk.yielded) : walk.yielded[i].parent # fsdecode(nBack)

\* C28: with the symlink-cycle filter in the chain and a symlink root/back
\* that points to root itself, the walker emits the path back exactly once
\* and never enumerates its children
C28_BackEmittedOnce ==
    (WalksRootWithBack /\ Exhausted(walk)) =>
        /\ Cardinality({i \in 1..Len(walk.yielded) :
                           PathStr(walk.yielded[i]) = fsdecode(nBack)}) = 1
        /\ BackNotEntered

\* C28, amended: with the symlink-cycle filter in the chain and a symlink
\* root/back that points to root itself, the walker never emits the path
\* back and never enumerates its children
C28_BackNeverEmitted ==
    WalksRootWithBack =>
        /\ \A i \in 1..Len(walk.yielded) : PathStr(walk.yielded[i]) # fsdecode(nBack)
        /\ BackNotEntered

\* C28 happens: the walk of the root has ended, the link k among the entries
\* it has looked at, and has yielded the other link and what lies below it
C28_Witness ==
    /\ WalksRootWithBack
    /\ Exhausted(walk)
    /\ walk.todo = {}
    /\ \E i \in 1..Len(walk.yielded) : walk.yielded[i].parent = fsdecode(nLink)

\* C29: over any sequence of calls to one symlink-cycle filter, a directory
\* symlink is accepted at most once: if a presentation of it is accepted,
\* every later presentation of the same link is rejected
C29_AcceptedAtMostOnce ==
    \A i, j \in 1..Len(flt.calls) :
        (/\ i < j
         /\ flt.calls[i].path = flt.calls[j].path
         /\ flt.calls[i].path.is_symlink /\ flt.calls[i].path.is_dir
         /\ flt.calls[i].accepted) => ~flt.calls[j].accepted

\* C29 happens: a directory symlink was accepted, and handed in again
C29_Witness ==
    \E i, j \in 1..Len(flt.calls) :
        /\ i < j
        /\ flt.calls[i].path = flt.calls[j].path
        /\ flt.calls[i].path.is_symlink /\ flt.calls[i].path.is_dir
        /\ flt.calls[i].accepted

\* the directory a candidate leads to, symlinks resolved, as the sequence of
\* its components from / down; and the same for the root of the filter
TargetOf(path) == OsNode(fs.layout, PathJoin(flt.root, PathStr(path)), TRUE)

RootOfFilter == OsNode(fs.layout, flt.root, TRUE)

\* one directory is the other, or above it, or inside it: one sequence of
\* components begins with the whole of the other
Nested(a, b) ==
    \/ Len(a) <= Len(b) /\ SubSeq(b, 1, Len(a)) = a
    \/ Len(b) <= Len(a) /\ SubSeq(a, 1, Len(b)) = b

\* the root and the targets of the links accepted before call j
KnownBefore(j) ==
    {RootOfFilter}
    \cup {TargetOf(flt.calls[i].path) :
             i \in {h \in 1..(j - 1) : /\ flt.calls[h].path.is_symlink
                                       /\ flt.calls[h].path.is_dir
                                       /\ flt.calls[h].accepted}}

\* C30: the filter rejects a candidate iff it is both a symlink and a
\* directory and its canonical target is equal to, an ancestor of, or inside
\* the root or a target accepted before, compared by whole components;
\* everything else is accepted: what is no link, a link to a file, and a
\* target whose name only begins like that of a known root
C30_RejectsNestedTargets ==
    \A j \in 1..Len(flt.calls) :
        ~flt.calls[j].accepted <=>
            /\ flt.calls[j].path.is_symlink
            /\ flt.calls[j].path.is_dir
            /\ \E known \in KnownBefore(j) : Nested(known, TargetOf(flt.calls[j].path))

\* C30 happens: after the link to /o/a was accepted, the link to /o/ab was
\* accepted and the link to /o/a/b rejected
C30_Witness ==
    /\ Len(flt.calls) = 3
    /\ flt.calls[1].accepted /\ TargetOf(flt.calls[1].path) = <<nO, nA>>
    /\ flt.calls[2].accepted /\ TargetOf(flt.calls[2].path) = <<nO, nA \o nB>>
    /\ ~flt.calls[3].accepted /\ TargetOf(flt.calls[3].path) = <<nO, nA, nB>>

\* C31: an OSError raised while one directory is enumerated is absorbed by
\* the walker: the generator does not end with the error, what it had
\* yielded before stays as it was, no further entry of that directory is
\* yielded, and every directory that was on the stack is still on it or has
\* been taken off it and entered
C31_ScanErrorAbsorbed ==
    \A k \in 1..Len(scanned.errors) :
        \A e \in {scanned.errors[k]} :
            /\ walk.pc # "raised"
            /\ Len(walk.yielded) >= Len(e.yielded)
            /\ SubSeq(walk.yielded, 1, Len(e.yielded)) = e.yielded
            /\ \A i \in (Len(e.yielded) + 1)..Len(walk.yielded) :
                  walk.yielded[i].parent # ParentOfEntries(e.current[1])
            /\ \A i \in 1..Len(e.dirstack) :
                  \/ \E j \in 1..Len(walk.dirstack) : walk.dirstack[j] = e.dirstack[i]
                  \/ \E j \in 1..Len(scanned.entered) : scanned.entered[j] = e.dirstack[i]

\* C31 happens: the enumeration of a directory failed after one of its
\* entries had been yielded and while a directory was waiting on the stack;
\* the walk has ended and has yielded entries of that other directory since
C31_Witness ==
    /\ Len(scanned.errors) = 1
    /\ scanned.errors[1].yielded # <<>>
    /\ scanned.errors[1].dirstack # <<>>
    /\ Len(walk.yielded) > Len(scanned.errors[1].yielded)
    /\ Exhausted(walk)

\* the normalized joined form of a Path: its parent and name joined with
\* os.path.join and normalized with os.path.normpath
NormalForm(path) == normpath(PathJoin(path.parent, path.name))

\* C32: two Paths are equal iff their normalized joined forms are equal,
\* equal Paths have equal hashes, a Path equals the plain string of its
\* normalized joined form and hashes like it (so that both address the same
\* dictionary entry), and a Path compared with a value that is no path is
\* not equal
C32_EqualityByNormalForm ==
    \A i, j \in 1..Len(vals) :
        \A p \in {vals[i].path}, q \in {vals[j].path} :
            /\ Equal(p, [type |-> "Path", v |-> q]) <=> NormalForm(p) = NormalForm(q)
            /\ Equal(p, [type |-> "Path", v |-> q]) => hash(p) = hash(q)
            /\ Equal(p, Str(NormalForm(p)))
            /\ hash(p) = NormalForm(p)
            /\ ~Equal(p, Object)

\* the Path constructed from the normalized joined string parent/name
JoinedPath(parent, name) == Path(Str(normpath(PathJoin(fspath(parent), name))))

\* C33: for every Path parent and every plain component name,
\* parent.make_child(name) equals the Path constructed from the normalized
\* joined string parent/name, and its depth is parent.depth + 1, the depth
\* the normalizing constructor computes for that string
C33_MakeChildIsNormalizedJoin ==
    \A i \in 1..Len(vals) :
        (vals[i].how = "make_child" /\ is_simple_name(vals[i].arg.v)) =>
            \A parent \in {vals[vals[i].of].path}, child \in {vals[i].path} :
                /\ Equal(child, [type |-> "Path", v |-> JoinedPath(parent, vals[i].arg.v)])
                /\ child.depth = parent.depth + 1
                /\ child.depth = JoinedPath(parent, vals[i].arg.v).depth

\* C34: for every byte sequence B, relative or absolute, the bytes of
\* Path(B) are the normalized B, and for every Path P the Path made of the
\* bytes of P equals P
C34_BytesRoundTrip ==
    \A i \in 1..Len(vals) :
        /\ (vals[i].how = "Path" /\ vals[i].arg.type = "bytes") =>
              fsencode_path(vals[i].path) = normpath(vals[i].arg.v)
        /\ Equal(Path(Bytes(fsencode_path(vals[i].path))),
                 [type |-> "Path", v |-> vals[i].path])

\* the node a path of the walk leads to, symlinks resolved
ScanTarget(pathstr) == OsNode(fs.layout, PathJoin(walk.root, pathstr), TRUE)

\* the directory symlinks with names that are not hidden which the walk met:
\* the entries of the directories it entered
LinksMet ==
    UNION {{child \in {make_child(scanned.entered[i], fsdecode(rawname),
                                  EntryIsDir(fs.layout, node, rawname),
                                  EntryIsSymlink(fs.layout, node, rawname)) :
                          rawname \in EntryNames(fs.layout, node)} :
               child.is_symlink /\ child.is_dir /\ not_hidden_name(child)} :
           <<i, node>> \in {<<h, ScanTarget(PathStr(scanned.entered[h]))>> :
                               h \in 1..Len(scanned.entered)}}

\* C35: with the filters update installs, when the walk has ended, for every
\* directory outside the root that is the target of a directory symlink met
\* during the walk whose name is not hidden, exactly one symlink to it has
\* been yielded, and that one has been entered
C35_LinkedDirectoryEnteredOnce ==
    (/\ scanned.n = 1
     /\ scanned.filters = UpdateFilters
     /\ scanned.errors = <<>>
     /\ walk.pc = "loop" /\ walk.dirstack = <<>>
     /\ Len(walk.yielded) < MaxYielded) =>
        \A link \in LinksMet :
            ~Nested(ScanTarget(<<>>), ScanTarget(PathStr(link))) =>
                \E j \in BelowStart..Len(walk.yielded) :
                    /\ walk.yielded[j].is_symlink
                    /\ ScanTarget(PathStr(walk.yielded[j])) = ScanTarget(PathStr(link))
                    /\ \E h \in 1..Len(scanned.entered) :
                          scanned.entered[h] = walk.yielded[j]
                    /\ \A k \in BelowStart..Len(walk.yielded) :
                          (/\ walk.yielded[k].is_symlink
                           /\ ScanTarget(PathStr(walk.yielded[k])) = ScanTarget(PathStr(link))) =>
                              k = j

\* the directories an entry of the directory d leads to: its subdirectories
\* and the targets of its directory symlinks
LeadsTo(layout, d) ==
    {IF layout[m].kind = "link" THEN layout[m].target ELSE m :
        m \in {n \in DOMAIN layout : /\ Len(n) = Len(d) + 1 /\ Front(n) = d
                                     /\ EntryIsDir(layout, d, Last(n))}}

\* the directories reached from those of S in any number of steps
RECURSIVE Reached(_, _)
Reached(layout, S) ==
    CHOOSE R \in {IF U = S THEN S ELSE Reached(layout, U) :
                     U \in {S \cup UNION {LeadsTo(layout, d) : d \in S}}} : TRUE

\* the tree has a directory-symlink cycle: some directory leads back to itself
Cyclic(layout) ==
    \E d \in {n \in DOMAIN layout : layout[n].kind = "dir"} :
        d \in Reached(layout, LeadsTo(layout, d))

\* C36: on a finite tree, be it one with directory-symlink cycles when the
\* symlink-cycle filter is in the chain, a scan that is consumed comes to its
\* end having yielded finitely many paths: the generator has raised or
\* returned, or its directory stack is empty
C36_ScanTerminates ==
    (/\ scanned.n = 1
     /\ \/ ~Cyclic(fs.layout)
        \/ \E k \in 1..Len(scanned.filters) : scanned.filters[k] = "circular_symlink")
    ~> (/\ walk.pc \in {"raised", "done", "loop"}
        /\ walk.dirstack = <<>>
        /\ Len(walk.yielded) < MaxYielded)

\* C36 happens: the walk of the two directories that lead to each other, with
\* the symlink-cycle filter in the chain, has ended after entering the link
C36_Witness ==
    /\ scanned.n = 1
    /\ fs.layout = LayoutCycle
    /\ Cyclic(fs.layout)
    /\ walk.pc = "loop" /\ walk.dirstack = <<>>
    /\ \E j \in 1..Len(scanned.entered) : PathStr(scanned.entered[j]) = nLink
    /\ \E i \in 1..Len(walk.yielded) : walk.yielded[i].name = nM

\* C37: for every max_depth >= 0 handed to the walker of media/files.py, no
\* directory whose depth below the start path exceeds max_depth has its
\* entries enumerated, and so no yielded path lies more than max_depth + 1
\* below the start path.
C37_NothingBeyondMaxDepth ==
    (scanned.n = 1 /\ scanned.max_depth # NULL /\ scanned.start # <<>>) =>
        /\ \A i \in 1..Len(scanned.entered) :
              scanned.entered[i].depth - scanned.start[1].depth <= scanned.max_depth[1]
        /\ \A i \in 1..Len(walk.yielded) :
              walk.yielded[i].depth - scanned.start[1].depth
                  <= scanned.max_depth[1] + 1

\* C38: when the BEGIN issued on entering a session's scope fails (Busy), the
\* session is left inactive: it holds no connection afterwards, and an
\* __enter__ of a session whose scope is not active is never rejected as
\* nested.
C38_FailedBeginLeavesInactive ==
    /\ (last.op = "enter" /\ last.res = "Busy") => ~sess[last.s].conn
    /\ (last.op = "enter" /\ last.res = "SessionError" /\ last.why = "nested")
           => scope[last.s]

\* the canonical root of the filter as a string: the directory its root leads
\* to, from / down, with a separator at its end
CanonicalRoot == <<Ch.sep>> \o JoinSep(DecodeAll(RootOfFilter)) \o <<Ch.sep>>

\* C39: after any sequence of calls to one cycle filter, its set of known
\* roots contains the canonical root and is prefix-free (no member begins
\* with another), and every call leaves the set as it was or larger, larger
\* only when the call accepted a path that is a symlink and a directory.
C39_KnownRootsGrowPrefixFree ==
    /\ [](flt.made =>
            /\ CanonicalRoot \in flt.known_roots
            /\ \A a, b \in flt.known_roots : StartsWith(a, b) => a = b)
    /\ [][flt.made =>
            /\ flt.known_roots \subseteq flt'.known_roots
            /\ flt'.known_roots # flt.known_roots =>
                  /\ Len(flt'.calls) = Len(flt.calls) + 1
                  /\ Last(flt'.calls).accepted
                  /\ Last(flt'.calls).path.is_symlink
                  /\ Last(flt'.calls).path.is_dir]_vars

\* C39 happens: two links were accepted and their targets added to the root,
\* and a third link was rejected
C39_Witness ==
    /\ flt.made
    /\ Cardinality(flt.known_roots) = 3
    /\ \E j \in 1..Len(flt.calls) :
          /\ ~flt.calls[j].accepted
          /\ Cardinality(KnownBefore(j)) = 3

\* C40: an update pass in which the walker yields no path (an empty
\* directory scanned as the root) completes without raising, and leaves the
\* store as it was when the pass began.
C40_EmptyPassCompletes ==
    (/\ upd.pass >= 1
     /\ upd.pc = "idle"
     /\ walk.pc # "raised"
     /\ walk.yielded = <<>>) => (upd.res = "ok" /\ store = upd.base)

====
